---- MODULE Spec2Model ----
(***************************************************************************)
(* A model of the predator / prey / grass simulation: the toroidal        *)
(* multi-occupancy grid, the animals' energy and hunger state machine,     *)
(* the fuzzy brains and the scheduler's tick.                              *)
(*                                                                         *)
(* Energies are exact: an energy e is held as the integer e * EnergyScale. *)
(* Every operation of the program that draws a random number is a set of   *)
(* outcomes here; an operation on the world returns the set of worlds it   *)
(* can produce.                                                            *)
(***************************************************************************)
EXTENDS Integers, Sequences, FiniteSets, TLC

VARIABLES dim, cap, agents, grid, ev, pending, snapshot, stepped, tick, phase, lastOp, probe

vars == <<dim, cap, agents, grid, ev, pending, snapshot, stepped, tick, phase, lastOp, probe>>

----------------------------------------------------------------------------
(* Bounds of the model *)

\* side lengths of the grid of the simulated world
Width == 3
Height == 1
\* entities (offspring, new grass) that may be created in one run
MaxNew == 1
\* ticks issued in one run
MaxTicks == 2

----------------------------------------------------------------------------
(* Arithmetic helpers *)

RECURSIVE Pow10(_)
Pow10(k) == IF k = 0 THEN 1 ELSE 10 * Pow10(k - 1)

\* Units per energy point: tenths for the hunger losses, and one factor of
\* ten for each reproduction (x 0.5 and x 0.4) a run can hold.
EnergyScale == 10 * Pow10(MaxNew)

Inf == 1000 * 1000

Min2(a, b) == IF a <= b THEN a ELSE b
Max2(a, b) == IF a >= b THEN a ELSE b
Abs(a) == IF a < 0 THEN -a ELSE a

SeqToSet(s) == {s[i] : i \in DOMAIN s}

\* s without its first occurrence of x (Python's list.remove)
RemoveFirst(s, x) ==
    IF \E i \in DOMAIN s : s[i] = x
    THEN LET k == CHOOSE i \in DOMAIN s : s[i] = x /\ \A j \in 1..(i - 1) : s[j] # x
         IN  [i \in 1..(Len(s) - 1) |-> IF i < k THEN s[i] ELSE s[i + 1]]
    ELSE s

\* s without its i-th element
RemoveAt(s, i) == [j \in 1..(Len(s) - 1) |-> IF j < i THEN s[j] ELSE s[j + 1]]

----------------------------------------------------------------------------
(* Configuration: src/models/config.py.  Fractions are held as integers:   *)
(* energy losses in tenths, factors and chances in hundredths.             *)

GRASS_ENERGY_VALUE == 20
HERBIVORE_MAX_ENERGY == 100
PREDATOR_MAX_ENERGY == 150
PREDATOR_PREY_ENERGY_VALUE == 30
PREDATOR_BREEDING_COOLDOWN == 40
\* 0.9 of max_energy, in tenths
HERBIVORE_BREEDING_ENERGY_THRESHOLD == 9
PREDATOR_BREEDING_ENERGY_THRESHOLD == 9
SPRINT_COOLDOWN == 5
\* 0.08 * max_energy, in hundredths of max_energy
SPRINT_COST_PCT == 8

\* (threshold, energy loss in tenths), thresholds decreasing
HERBIVORE_HUNGER_LEVELS == << <<20, 4>>, <<10, 2>>, <<0, 1>> >>
PREDATOR_HUNGER_LEVELS == << <<15, 8>>, <<7, 4>>, <<0, 2>> >>

\* in hundredths
HERBIVORE_BREEDING_ENERGY_COST == 50
HERBIVORE_OFFSPRING_ENERGY_FACTOR == 80
PREDATOR_BREEDING_ENERGY_COST == 50
PREDATOR_OFFSPRING_ENERGY_FACTOR == 40

----------------------------------------------------------------------------
(* The grid: mesa.space.MultiGrid(width, height, torus=True) as the        *)
(* program uses it.  A cell is <<x, y>>; a cell's content is the list of   *)
(* the agents in it, in the order they were placed.  An agent that is on   *)
(* no cell has pos = NoPos (Python's None).                                *)

NoPos == <<>>

CellsOf(d) == {<<x, y>> : x \in 0..(d[1] - 1), y \in 0..(d[2] - 1)}

\* The cells around pos in the order mesa enumerates them: dx outermost,
\* dy innermost, coordinates wrapped, the radius cut to half the side so
\* that no cell is listed twice.
\* the offsets -r .. r along a side of length n, less one when they would
\* wrap onto each other
Span(n, r) == IF r = n \div 2 /\ n % 2 = 0 THEN 2 * r ELSE 2 * r + 1

\* the cells within xr columns and yr rows of pos on a grid that does not wrap
Around_unwrapped(d, pos, xr, yr) ==
    [i \in 1..(Span(d[1], xr) * Span(d[2], yr)) |->
        << pos[1] + ((i - 1) \div Span(d[2], yr)) - xr,
           pos[2] + ((i - 1) % Span(d[2], yr)) - yr >>]

\* the cells within xr columns and yr rows of pos
Around(d, pos, xr, yr) ==
    [i \in 1..(Span(d[1], xr) * Span(d[2], yr)) |->
        << (pos[1] + ((i - 1) \div Span(d[2], yr)) - xr) % d[1],
           (pos[2] + ((i - 1) % Span(d[2], yr)) - yr) % d[2] >>]

get_neighborhood(d, pos, include_center, radius) ==
    SelectSeq(Around(d, pos, Min2(radius, d[1] \div 2), Min2(radius, d[2] \div 2)),
              LAMBDA c : include_center \/ c # pos)

\* world: [dim, cap, agents, grid, ev]
place_agent(w, a, pos) ==
    [w EXCEPT !.grid[pos] = IF w.agents[a].pos = NoPos \/ a \notin SeqToSet(@)
                            THEN Append(@, a) ELSE @,
              !.agents[a].pos = pos]

remove_agent(w, a) ==
    [w EXCEPT !.grid[w.agents[a].pos] = RemoveFirst(@, a),
              !.agents[a].pos = NoPos]

\* a move that does not take the agent out of the cell it leaves
move_agent_keep(w, a, pos) == place_agent(w, a, pos)

move_agent(w, a, pos) == place_agent(remove_agent(w, a), a, pos)

get_cell_list_contents(w, cell) == w.grid[cell]

\* src/models/simulation.py: the agents of all cells, cell by cell
RECURSIVE ConcatCells(_, _)
ConcatCells(g, cells) ==
    IF cells = <<>> THEN <<>>
    ELSE g[Head(cells)] \o ConcatCells(g, Tail(cells))

CoordIter(d) ==
    [i \in 1..(d[1] * d[2]) |-> << (i - 1) \div d[2], (i - 1) % d[2] >>]

get_all_agents(w) == ConcatCells(w.grid, CoordIter(w.dim))

----------------------------------------------------------------------------
(* Entities.  kind is "grass", "herbivore" or "predator" (the is_grass,    *)
(* is_herbivore, is_predator attributes).                                  *)

NewAgent(kind, energy, max_energy) ==
    [kind |-> kind, pos |-> NoPos, energy |-> energy, max_energy |-> max_energy,
     steps_without_food |-> 0, sprint_cooldown |-> 0, breeding_cooldown |-> 0]

NewGrass == NewAgent("grass", 0, 0)
NewHerbivore(energy) == NewAgent("herbivore", energy, HERBIVORE_MAX_ENERGY * EnergyScale)
NewPredator(energy) == NewAgent("predator", energy, PREDATOR_MAX_ENERGY * EnergyScale)

is_grass(w, a) == w.agents[a].kind = "grass"
is_herbivore(w, a) == w.agents[a].kind = "herbivore"
is_predator(w, a) == w.agents[a].kind = "predator"

\* Manhattan distance, on the raw coordinates
calculate_distance(p1, p2) == Abs(p1[1] - p2[1]) + Abs(p1[2] - p2[2])

----------------------------------------------------------------------------
(* src/models/agents/base_agent.py: Animal *)

\* ev.log lists what the stepping agent has done in its current step
Log(w, e) == [w EXCEPT !.ev.log = Append(@, e)]

check_position(w, a) == w.agents[a].pos # NoPos

get_neighbors(w, a, include_center) ==
    IF ~check_position(w, a) THEN <<>>
    ELSE get_neighborhood(w.dim, w.agents[a].pos, include_center, 1)

\* the world after the call (unchanged when the call returns False)
move_to(w, a, new_pos) ==
    IF ~check_position(w, a) \/ new_pos = NoPos THEN w
    ELSE Log(move_agent(w, a, new_pos), "move")

\* move_to(random.choice(cells)), for a list of cells that is not empty
MoveToAny(w, a, cells) == {move_to(w, a, cells[i]) : i \in DOMAIN cells}

\* "if neighbors: self.move_to(random.choice(neighbors))"
MoveAmong(w, a, neighbors) == IF neighbors # <<>> THEN MoveToAny(w, a, neighbors) ELSE {w}

random_move(w, a) == MoveAmong(w, a, get_neighbors(w, a, FALSE))

die(w, a) == IF check_position(w, a) THEN Log(remove_agent(w, a), "die") ELSE w

\* a hunger that costs nothing
HungerLoss_none(levels, swf) == 0

\* the losses of all the levels whose thresholds the hunger counter exceeds
RECURSIVE HungerLoss_sum(_, _)
HungerLoss_sum(levels, swf) ==
    IF levels = <<>> THEN 0
    ELSE (IF swf > Head(levels)[1] THEN Head(levels)[2] ELSE 0)
         + HungerLoss_sum(Tail(levels), swf)

\* the loss of the first level whose threshold the hunger counter exceeds
RECURSIVE HungerLoss(_, _)
HungerLoss(levels, swf) ==
    IF levels = <<>> THEN 0
    ELSE IF swf > Head(levels)[1] THEN Head(levels)[2]
    ELSE HungerLoss(Tail(levels), swf)

\* logs "zero" when the agent's energy is not positive
NoteZero(w, a) ==
    IF w.agents[a].energy <= 0
    THEN [w EXCEPT !.ev.log = Append(@, "zero"), !.ev.zeroed = @ \cup {a}]
    ELSE w

\* "if self.energy <= 0: self.die()"
DieIfSpent(w, a) == IF w.agents[a].energy <= 0 THEN die(w, a) ELSE w

\* the world after the call; the call returns reduce_energy_alive of it
reduce_energy(w, a, hunger_levels) ==
    DieIfSpent(
        NoteZero(Log([w EXCEPT !.agents[a].energy =
                         @ - HungerLoss(hunger_levels, w.agents[a].steps_without_food)
                             * (EnergyScale \div 10)],
                     "hunger"), a), a)

reduce_energy_alive(w, a) == w.agents[a].energy > 0

\* "if neighbors: place_agent(offspring, random.choice(neighbors))"
PlaceAmong(w, baby, neighbors) ==
    IF neighbors = <<>> THEN {w}
    ELSE {place_agent(w, baby, neighbors[i]) : i \in DOMAIN neighbors}

\* a placement among the cells within two of the parent
PlaceLast_within_two(w, a) ==
    IF ~check_position(w, a) THEN {w}
    ELSE PlaceAmong(w, Len(w.agents), get_neighborhood(w.dim, w.agents[a].pos, TRUE, 2))

\* Animal.place_offspring, once the offspring is the last entry of agents
PlaceLast(w, a) ==
    IF ~check_position(w, a) THEN {w}
    ELSE PlaceAmong(w, Len(w.agents), get_neighbors(w, a, TRUE))

\* Animal.place_offspring, with the construction of the offspring: the new
\* agent is the next entry of agents
place_offspring(w, a, offspring) == PlaceLast([w EXCEPT !.agents = Append(@, offspring)], a)

----------------------------------------------------------------------------
(* src/models/fuzzy_brain.py.  A crisp input is a fraction [n, d]; the      *)
(* breakpoints of the membership functions are held in hundredths.  A      *)
(* membership degree m is held as the integer m * mu_unit and a firing     *)
(* strength s as s * 100 * mu_unit, where the brain's mu_unit is chosen so *)
(* that every degree of the inputs the model supplies is a whole number.   *)
(* The arithmetic is exact where the program's is floating point: two      *)
(* strengths that are equal here can differ in their last bit there.       *)

Frac(n, d) == [n |-> n, d |-> d]

\* max(0, min(1, (a - x) / b)) if x < a else 0
Falling(a, b) == [a |-> a, b |-> b, hi |-> a, shape |-> "falling"]
\* max(0, min(1, (x - a) / b)) if x > a else 0
Rising(a, b) == [a |-> a, b |-> b, hi |-> a, shape |-> "rising"]
\* max(0, min((x - a) / b, (hi - x) / b)) if a <= x <= hi else 0
Tri(a, hi, b) == [a |-> a, b |-> b, hi |-> hi, shape |-> "tri"]

\* num / den cut to [0, 1], in units of 1 / unit; den = b * x.d > 0
Clamp01(num, b, x, unit) ==
    IF num <= 0 THEN 0
    ELSE IF num >= b * x.d THEN unit
    ELSE (num * (unit \div x.d)) \div b

membership_function(f, x, unit) ==
    LET xn == 100 * x.n
    IN  CASE f.shape = "falling" ->
               IF xn < f.a * x.d THEN Clamp01(f.a * x.d - xn, f.b, x, unit) ELSE 0
          [] f.shape = "rising" ->
               IF xn > f.a * x.d THEN Clamp01(xn - f.a * x.d, f.b, x, unit) ELSE 0
          [] f.shape = "tri" ->
               IF f.a * x.d <= xn /\ xn <= f.hi * x.d
               THEN Max2(0, (Min2(xn - f.a * x.d, f.hi * x.d - xn) * (unit \div x.d)) \div f.b)
               ELSE 0

\* FuzzyVariable.fuzzify: {set_name: membership_degree}
fuzzify(variable, value, unit) ==
    [s \in DOMAIN variable |-> membership_function(variable[s], value, unit)]

\* FuzzyBrain.fuzzify_inputs: only the inputs that are input variables
fuzzify_inputs(brain, input_values) ==
    [v \in (DOMAIN input_values) \cap (DOMAIN brain.input_variables) |->
        fuzzify(brain.input_variables[v], input_values[v], brain.mu_unit)]

FuzzyRule(antecedents, consequent, weight) ==
    [antecedents |-> antecedents, consequent |-> consequent, weight |-> weight]

\* the degree of the first antecedent alone
MinDegree_first(antecedents, fuzzified_inputs) ==
    fuzzified_inputs[Head(antecedents)[1]][Head(antecedents)[2]]

RECURSIVE MinDegree(_, _)
MinDegree(antecedents, fuzzified_inputs) ==
    LET deg == fuzzified_inputs[Head(antecedents)[1]][Head(antecedents)[2]]
    IN  IF Len(antecedents) = 1 THEN deg
        ELSE Min2(deg, MinDegree(Tail(antecedents), fuzzified_inputs))

\* the firing strength when an absent antecedent is passed over
evaluate_lenient(rule, fuzzified_inputs) ==
    IF SelectSeq(rule.antecedents,
                 LAMBDA a : a[1] \in DOMAIN fuzzified_inputs
                            /\ a[2] \in DOMAIN fuzzified_inputs[a[1]]) = <<>>
    THEN rule.weight
    ELSE MinDegree(SelectSeq(rule.antecedents,
                             LAMBDA a : a[1] \in DOMAIN fuzzified_inputs
                                        /\ a[2] \in DOMAIN fuzzified_inputs[a[1]]),
                   fuzzified_inputs) * rule.weight

\* FuzzyRule.evaluate: the firing strength
evaluate(rule, fuzzified_inputs) ==
    IF \E i \in DOMAIN rule.antecedents :
          \/ rule.antecedents[i][1] \notin DOMAIN fuzzified_inputs
          \/ rule.antecedents[i][2] \notin DOMAIN fuzzified_inputs[rule.antecedents[i][1]]
    THEN 0
    ELSE IF rule.antecedents = <<>> THEN 0
    ELSE MinDegree(rule.antecedents, fuzzified_inputs) * rule.weight

\* output_strengths is a dictionary in insertion order: a sequence of
\* [key |-> <<output_var, output_set>>, strength |-> s]
Strength(output_strengths, key) ==
    IF \E i \in DOMAIN output_strengths : output_strengths[i].key = key
    THEN output_strengths[CHOOSE i \in DOMAIN output_strengths : output_strengths[i].key = key].strength
    ELSE 0

SetStrength(output_strengths, key, s) ==
    IF \E i \in DOMAIN output_strengths : output_strengths[i].key = key
    THEN [i \in DOMAIN output_strengths |->
            IF output_strengths[i].key = key
            THEN [key |-> key, strength |-> s] ELSE output_strengths[i]]
    ELSE Append(output_strengths, [key |-> key, strength |-> s])

\* the loop over the rules where the last rule that fires sets the strength
RECURSIVE InferRules_last(_, _, _)
InferRules_last(rules, fuzzified_inputs, output_strengths) ==
    IF rules = <<>> THEN output_strengths
    ELSE InferRules_last(Tail(rules), fuzzified_inputs,
            IF evaluate(Head(rules), fuzzified_inputs) > 0
            THEN SetStrength(output_strengths, Head(rules).consequent,
                             evaluate(Head(rules), fuzzified_inputs))
            ELSE output_strengths)

\* FuzzyBrain.infer: the loop over the rules
RECURSIVE InferRules(_, _, _)
InferRules(rules, fuzzified_inputs, output_strengths) ==
    IF rules = <<>> THEN output_strengths
    ELSE LET firing_strength == evaluate(Head(rules), fuzzified_inputs)
             key == Head(rules).consequent
         IN  InferRules(Tail(rules), fuzzified_inputs,
                IF firing_strength > 0
                THEN SetStrength(output_strengths, key,
                                 Max2(Strength(output_strengths, key), firing_strength))
                ELSE output_strengths)

infer(brain, fuzzified_inputs) == InferRules(brain.rules, fuzzified_inputs, <<>>)

\* output_strengths.get(output_var, {}).items(), in insertion order
Options(output_strengths, output_var) ==
    SelectSeq(output_strengths, LAMBDA e : e.key[1] = output_var)

\* the loop "if strength > max_strength": the first greatest entry wins
RECURSIVE BestOption(_, _, _)
BestOption(options, max_strength, best) ==
    IF options = <<>> THEN best
    ELSE IF Head(options).strength > max_strength
         THEN BestOption(Tail(options), Head(options).strength, Head(options).key[2])
         ELSE BestOption(Tail(options), max_strength, best)

(* HerbivoreBrain *)

HerbivoreBrain_variables ==
    [energy |->
        [low |-> Falling(30, 30), medium |-> Tri(10, 70, 30),
         high |-> Rising(50, 50), full |-> Rising(85, 15)],
     food_proximity |->
        [far |-> Falling(300, 300), medium |-> Tri(100, 500, 200),
         near |-> Rising(300, 300)],
     predator_proximity |->
        [far |-> Falling(400, 400), medium |-> Tri(150, 600, 250),
         near |-> Rising(300, 300), very_near |-> Falling(200, 200)]]

\* the sprint rule with half its weight
SprintRule_half == FuzzyRule(<< <<"predator_proximity", "very_near">> >>, <<"movement", "sprint">>, 50)

\* "When predator is very near, sprint away"
SprintRule == FuzzyRule(<< <<"predator_proximity", "very_near">> >>, <<"movement", "sprint">>, 100)

HerbivoreBrain_rules ==
    << SprintRule,
       FuzzyRule(<< <<"predator_proximity", "near">> >>, <<"movement", "flee">>, 85),
       FuzzyRule(<< <<"predator_proximity", "medium">>, <<"energy", "low">> >>,
                 <<"movement", "flee">>, 70),
       FuzzyRule(<< <<"predator_proximity", "medium">>, <<"energy", "medium">> >>,
                 <<"movement", "flee">>, 60),
       FuzzyRule(<< <<"energy", "medium">>, <<"predator_proximity", "medium">>,
                    <<"food_proximity", "near">> >>, <<"movement", "seek_food">>, 65),
       FuzzyRule(<< <<"energy", "low">>, <<"food_proximity", "near">>,
                    <<"predator_proximity", "far">> >>, <<"movement", "seek_food">>, 90),
       FuzzyRule(<< <<"energy", "low">>, <<"food_proximity", "medium">>,
                    <<"predator_proximity", "far">> >>, <<"movement", "seek_food">>, 80),
       FuzzyRule(<< <<"energy", "medium">>, <<"food_proximity", "near">>,
                    <<"predator_proximity", "far">> >>, <<"movement", "seek_food">>, 70),
       FuzzyRule(<< <<"energy", "medium">>, <<"predator_proximity", "far">> >>,
                 <<"movement", "wander">>, 60),
       FuzzyRule(<< <<"energy", "high">>, <<"predator_proximity", "far">> >>,
                 <<"movement", "seek_partner">>, 70),
       FuzzyRule(<< <<"energy", "full">>, <<"predator_proximity", "far">> >>,
                 <<"movement", "seek_partner">>, 90),
       FuzzyRule(<< <<"energy", "full">>, <<"predator_proximity", "medium">> >>,
                 <<"movement", "seek_partner">>, 60),
       FuzzyRule(<< <<"energy", "high">>, <<"predator_proximity", "far">> >>,
                 <<"reproduction", "yes">>, 90),
       FuzzyRule(<< <<"energy", "full">> >>, <<"reproduction", "yes">>, 100),
       FuzzyRule(<< <<"energy", "medium">>, <<"predator_proximity", "far">> >>,
                 <<"reproduction", "yes">>, 60),
       FuzzyRule(<< <<"energy", "low">> >>, <<"reproduction", "no">>, 70),
       FuzzyRule(<< <<"predator_proximity", "near">> >>, <<"reproduction", "no">>, 90) >>

HerbivoreBrain ==
    [input_variables |-> HerbivoreBrain_variables,
     rules |-> HerbivoreBrain_rules,
     mu_unit |-> 12 * HERBIVORE_MAX_ENERGY * EnergyScale]

\* breed threshold, in hundredths
HERBIVORE_BREED_THRESHOLD == 30

\* the actions when breeding needs only "yes" above "no"
HerbivoreBrain_get_actions_nothreshold(output_strengths) ==
    [movement |-> BestOption(Options(output_strengths, "movement"), 0, "wander"),
     breed |-> Strength(output_strengths, <<"reproduction", "yes">>)
                 > Strength(output_strengths, <<"reproduction", "no">>)]

HerbivoreBrain_get_actions(output_strengths) ==
    LET best == BestOption(Options(output_strengths, "movement"), 0, "wander")
        best_movement ==
            IF best \in {"sprint", "flee", "seek_food", "seek_partner"} THEN best ELSE "wander"
        breed_strength == Strength(output_strengths, <<"reproduction", "yes">>)
        no_breed_strength == Strength(output_strengths, <<"reproduction", "no">>)
    IN  [movement |-> best_movement,
         breed |-> /\ breed_strength > no_breed_strength
                   /\ breed_strength > HERBIVORE_BREED_THRESHOLD * HerbivoreBrain.mu_unit]

\* FuzzyBrain.decide, for a herbivore
HerbivoreBrain_decide(input_values) ==
    HerbivoreBrain_get_actions(infer(HerbivoreBrain, fuzzify_inputs(HerbivoreBrain, input_values)))

----------------------------------------------------------------------------
(* Python's min(seq, key=...) and sorted(seq, key=...), on the sequence of *)
(* the keys                                                                *)

\* the index of the first least key
FirstMinIdx(keys) ==
    CHOOSE i \in DOMAIN keys :
        /\ \A j \in DOMAIN keys : keys[i] <= keys[j]
        /\ \A j \in 1..(i - 1) : keys[j] > keys[i]

\* the indices in increasing order of key, equal keys in their old order
StableSortIdx(keys) ==
    LET rank(i) == Cardinality({j \in DOMAIN keys : keys[j] < keys[i]})
                   + Cardinality({j \in 1..(i - 1) : keys[j] = keys[i]}) + 1
    IN  [r \in DOMAIN keys |-> CHOOSE i \in DOMAIN keys : rank(i) = r]

----------------------------------------------------------------------------
(* src/models/agents/herbivore.py: Herbivore *)

KindIn(w, cell, kind) == SelectSeq(w.grid[cell], LAMBDA b : w.agents[b].kind = kind)

\* one <<cell, dist>> for every agent of the kind in the cells, in order
RECURSIVE Sightings(_, _, _, _)
Sightings(w, from, cells, kind) ==
    IF cells = <<>> THEN <<>>
    ELSE [i \in 1..Len(KindIn(w, Head(cells), kind)) |->
             <<Head(cells), calculate_distance(from, Head(cells))>>]
         \o Sightings(w, from, Tail(cells), kind)

RECURSIVE MinDist(_)
MinDist(sightings) ==
    IF sightings = <<>> THEN Inf
    ELSE Min2(Head(sightings)[2], MinDist(Tail(sightings)))

NoPredatorInfo == [detected |-> FALSE, closest_dist |-> Inf, predator_cells |-> <<>>]

\* the dictionary _scan_for_predators returns for its list of sightings
PredatorInfo(predator_cells) ==
    [detected |-> Len(predator_cells) > 0,
     closest_dist |-> MinDist(predator_cells),
     predator_cells |-> predator_cells]

scan_for_predators(w, a, radius) ==
    IF ~check_position(w, a) THEN NoPredatorInfo
    ELSE PredatorInfo(Sightings(w, w.agents[a].pos,
                                get_neighborhood(w.dim, w.agents[a].pos, FALSE, radius),
                                "predator"))

\* "min(6, closest_dist) if closest_dist != float('inf') else 6"
Proximity(closest_dist) == Frac(IF closest_dist # Inf THEN Min2(6, closest_dist) ELSE 6, 1)

\* _gather_inputs, from the neighbourhood it scans
Herbivore_inputs(w, a, predator_info, neighborhood) ==
    [energy |-> Frac(w.agents[a].energy, w.agents[a].max_energy),
     food_proximity |-> Proximity(MinDist(Sightings(w, w.agents[a].pos, neighborhood, "grass"))),
     predator_proximity |->
         Proximity(IF predator_info.detected THEN predator_info.closest_dist
                   ELSE MinDist(Sightings(w, w.agents[a].pos, neighborhood, "predator")))]

Herbivore_gather_inputs(w, a, predator_info) ==
    IF ~check_position(w, a)
    THEN [energy |-> Frac(w.agents[a].energy, w.agents[a].max_energy),
          food_proximity |-> Frac(6, 1), predator_proximity |-> Frac(6, 1)]
    ELSE Herbivore_inputs(w, a, predator_info,
                          get_neighborhood(w.dim, w.agents[a].pos, FALSE, 3))

\* the energy of a meal of grass without the cap at max_energy
grass_energy_uncapped(energy, max_energy) == energy + GRASS_ENERGY_VALUE * EnergyScale

\* energy += GRASS_ENERGY_VALUE; energy = min(energy, max_energy)
grass_energy(energy, max_energy) == Min2(energy + GRASS_ENERGY_VALUE * EnergyScale, max_energy)

\* a meal that leaves the hunger counter as it was
EatFirst_keeping_counter(w, a, found) ==
    IF found = <<>> THEN w
    ELSE Log(remove_agent(
               [w EXCEPT !.agents[a].energy = grass_energy(@, w.agents[a].max_energy)],
               Head(found)), "eat")

\* the meal: the first grass of the cell is eaten
EatFirst(w, a, found) ==
    IF found = <<>> THEN w
    ELSE Log(remove_agent(
               [w EXCEPT !.agents[a].energy = grass_energy(@, w.agents[a].max_energy),
                         !.agents[a].steps_without_food = 0],
               Head(found)), "eat")

eat_grass(w, a) ==
    IF ~check_position(w, a) THEN w
    ELSE EatFirst(w, a, KindIn(w, w.agents[a].pos, "grass"))

\* a choice among the cells that stays where it is when there are none
MoveAmongOrStay(w, a, cells) ==
    IF cells # <<>> THEN MoveToAny(w, a, cells) ELSE {w}

\* "if cells: self.move_to(random.choice(cells)) else: self.random_move()"
MoveAmongOrRandom(w, a, cells) ==
    IF cells # <<>> THEN MoveToAny(w, a, cells) ELSE random_move(w, a)

find_food(w, a) ==
    IF ~check_position(w, a) THEN {w}
    ELSE MoveAmongOrRandom(w, a,
             SelectSeq(get_neighborhood(w.dim, w.agents[a].pos, FALSE, 1),
                       LAMBDA c : KindIn(w, c, "grass") # <<>>))

\* the first of the sightings at the least distance
ClosestSighting(sightings) ==
    sightings[FirstMinIdx([i \in DOMAIN sightings |-> sightings[i][2]])]

\* the part of the score for the distance to the nearest predator and for
\* the direction away from the closest one
AwayScore(min_pred_dist, pos, closest_pred_pos, cell) ==
    (IF min_pred_dist # Inf THEN min_pred_dist * 4 ELSE 0)
    + Max2(0, ((pos[1] - closest_pred_pos[1]) * (cell[1] - pos[1])
               + (pos[2] - closest_pred_pos[2]) * (cell[2] - pos[2])) * 2)

\* the score _evade_predators gives a neighbouring cell; the list of
\* sightings is not empty
EvadeScore(w, a, predator_cells, cell) ==
    AwayScore(MinDist([i \in DOMAIN predator_cells |->
                          <<predator_cells[i][1],
                            calculate_distance(cell, predator_cells[i][1])>>]),
              w.agents[a].pos, ClosestSighting(predator_cells)[1], cell)
    + (IF KindIn(w, cell, "grass") # <<>> THEN 3 ELSE 0)

\* seq in the order of the indices
InOrder(seq, order) == [r \in DOMAIN order |-> seq[order[r]]]

\* sorted(seq, key=...), for the sequence of the keys
SortedBy(seq, keys) == InOrder(seq, StableSortIdx(keys))

\* the best cell, or one of the three best when there are more than two
MoveToBest(w, a, best_cells) ==
    {move_to(w, a, best_cells[r]) : r \in 1..(IF Len(best_cells) > 2 THEN 3 ELSE 1)}

\* the scored choice among the neighbouring cells
EvadeAmong(w, a, predator_cells, safe_cells) ==
    IF safe_cells = <<>> THEN random_move(w, a)
    ELSE MoveToBest(w, a,
             SortedBy(safe_cells,
                      [i \in DOMAIN safe_cells |->
                          -EvadeScore(w, a, predator_cells, safe_cells[i])]))

\* _evade_predators, from the scan on; a predator at distance 3 or more is
\* evaded at random or by the score
EvadeSeen(w, a, predator_info) ==
    (IF ~predator_info.detected \/ predator_info.closest_dist >= 3
     THEN random_move(w, a) ELSE {})
    \cup (IF predator_info.detected
          THEN EvadeAmong(w, a, predator_info.predator_cells,
                          get_neighborhood(w.dim, w.agents[a].pos, FALSE, 1))
          ELSE {})

evade_predators(w, a) ==
    IF ~check_position(w, a) THEN {w}
    ELSE EvadeSeen(w, a, scan_for_predators(w, a, 3))

\* the first of the cells among those nearest to target_pos
ClosestTo(cells, target_pos) ==
    cells[FirstMinIdx([i \in DOMAIN cells |-> calculate_distance(cells[i], target_pos)])]

\* Herbivore._get_path_to: the loop, from the neighbourhood of current, and
\* its body once the closest cell is found
RECURSIVE PathLoop(_, _, _, _)
RECURSIVE PathVia(_, _, _, _)
PathLoop(d, neighborhood, current, target_pos) ==
    IF neighborhood = <<>> THEN <<>>
    ELSE PathVia(d, ClosestTo(neighborhood, target_pos), current, target_pos)

PathVia(d, closest, current, target_pos) ==
    IF \/ closest = target_pos
       \/ calculate_distance(closest, target_pos) >= calculate_distance(current, target_pos)
    THEN <<closest>>
    ELSE <<closest>> \o PathLoop(d, get_neighborhood(d, closest, FALSE, 1), closest, target_pos)

get_path_to(w, a, target_pos) ==
    IF ~check_position(w, a) THEN <<>>
    ELSE PathLoop(w.dim, get_neighborhood(w.dim, w.agents[a].pos, FALSE, 2),
                  w.agents[a].pos, target_pos)

\* round(v / sqrt(v^2 + u^2) * move_dist), for move_dist 1 or 2
RoundAway(v, u, move_dist) ==
    LET q == 4 * move_dist * move_dist * v * v
        m == v * v + u * u
        r == IF q <= m THEN 0 ELSE IF q < 9 * m THEN 1 ELSE 2
    IN  IF v < 0 THEN -r ELSE r

ClampTo(lo, hi, v) == Max2(lo, Min2(hi, v))

\* the cell move_dist cells from pos in the direction of the away vector
TargetFrom(d, pos, ax, ay, move_dist) ==
    << ClampTo(0, d[1] - 1, pos[1] + RoundAway(ax, ay, move_dist)),
       ClampTo(0, d[2] - 1, pos[2] + RoundAway(ay, ax, move_dist)) >>

\* the target cell of a sprint of move_dist cells
SprintTarget(w, a, closest_pred_pos, move_dist) ==
    TargetFrom(w.dim, w.agents[a].pos,
               w.agents[a].pos[1] - closest_pred_pos[1],
               w.agents[a].pos[2] - closest_pred_pos[2], move_dist)

\* the move along the path, or the evasion when there is no path
SprintPath(w, a, path, move_dist) ==
    IF Len(path) > 0
    THEN {move_to(w, a, IF Len(path) > 1 /\ move_dist = 2 THEN path[2] ELSE path[1])}
    ELSE evade_predators(w, a)

\* a sprint of move_dist cells: the target is move_dist cells away, or one
\* cell away when the sprint of two cells fails
SprintBy(w, a, closest_pred_pos, move_dist) ==
    UNION {SprintPath(w, a, get_path_to(w, a, SprintTarget(w, a, closest_pred_pos, target_dist)),
                      move_dist)
           : target_dist \in {move_dist, 1}}

\* _sprint_from_predators, from the closest predator on
SprintFrom(w, a, closest_pred) ==
    SprintBy(w, a, closest_pred[1], IF closest_pred[2] <= 2 THEN 2 ELSE 1)

\* _sprint_from_predators, from the scan on
SprintSeen(w, a, predator_info) ==
    IF ~predator_info.detected THEN random_move(w, a)
    ELSE SprintFrom(w, a, ClosestSighting(predator_info.predator_cells))

sprint_from_predators(w, a) ==
    IF ~check_position(w, a) THEN {w}
    ELSE SprintSeen(w, a, scan_for_predators(w, a, 3))

seek_partner(w, a) ==
    IF ~check_position(w, a) THEN {w}
    ELSE MoveAmongOrRandom(w, a,
             SelectSeq(get_neighborhood(w.dim, w.agents[a].pos, FALSE, 3),
                       LAMBDA c : \E i \in DOMAIN w.grid[c] :
                                     is_herbivore(w, w.grid[c][i]) /\ w.grid[c][i] # a))

\* the adjacent cells that hold no animal of a's species
FreeNeighbors(w, a) ==
    {c \in SeqToSet(get_neighbors(w, a, FALSE)) : KindIn(w, c, w.agents[a].kind) = <<>>}

\* self.energy *= HERBIVORE_BREEDING_ENERGY_COST
Herbivore_parent_energy(original_energy) ==
    (original_energy * HERBIVORE_BREEDING_ENERGY_COST) \div 100

\* an offspring that receives the factor of the parent's whole energy
Herbivore_offspring_energy_whole(original_energy) ==
    (original_energy * HERBIVORE_OFFSPRING_ENERGY_FACTOR) \div 100

\* original_energy * HERBIVORE_BREEDING_ENERGY_COST * HERBIVORE_OFFSPRING_ENERGY_FACTOR
Herbivore_offspring_energy(original_energy) ==
    (original_energy * HERBIVORE_BREEDING_ENERGY_COST * HERBIVORE_OFFSPRING_ENERGY_FACTOR)
        \div (100 * 100)

\* ev.repro: what a reproduction of a did, from the worlds before and after
Reproduced(w, a, w2) ==
    [w2 EXCEPT !.ev.repro =
        [parent |-> a, before |-> w.agents[a].energy, after |-> w2.agents[a].energy,
         offspring |-> Len(w2.agents), offspring_energy |-> w2.agents[Len(w2.agents)].energy,
         offspring_max |-> w2.agents[Len(w2.agents)].max_energy,
         placed |-> w2.agents[Len(w2.agents)].pos # NoPos,
         free |-> FreeNeighbors(w, a)]]

Herbivore_reproduce(w, a) ==
    {Reproduced(w, a, w2)
     : w2 \in place_offspring(
                 Log([w EXCEPT !.agents[a].energy = Herbivore_parent_energy(@)], "reproduce"),
                 a, NewHerbivore(Herbivore_offspring_energy(w.agents[a].energy)))}

\* the sprint cost without the floor at zero
sprint_energy_unfloored(energy, emergency_cost) == energy - emergency_cost

\* self.energy = max(0, self.energy - emergency_cost)
sprint_energy(energy, emergency_cost) == Max2(0, energy - emergency_cost)

\* a sprint that no cooldown holds back
can_sprint_always(sprint_cooldown) == TRUE

\* "if self.sprint_cooldown <= 0"
can_sprint(sprint_cooldown) == sprint_cooldown <= 0

\* _execute_decision: the sprint that the cooldown allows
Herbivore_sprint(w, a) ==
    {[w2 EXCEPT !.agents[a].sprint_cooldown = SPRINT_COOLDOWN]
     : w2 \in sprint_from_predators(
                 NoteZero(Log([w EXCEPT !.agents[a].energy =
                                  sprint_energy(@, (SPRINT_COST_PCT * w.agents[a].max_energy) \div 100)],
                              "sprint"), a), a)}

\* _execute_decision: the movement branch; a sprint on cooldown is a flee
Herbivore_movement(w, a, decision) ==
    CASE decision.movement = "sprint" /\ can_sprint(w.agents[a].sprint_cooldown) ->
           Herbivore_sprint(w, a)
      [] \/ decision.movement = "sprint" /\ ~can_sprint(w.agents[a].sprint_cooldown)
         \/ decision.movement = "flee" -> evade_predators(Log(w, "flee"), a)
      [] decision.movement = "seek_food" -> find_food(Log(w, "seek_food"), a)
      [] decision.movement = "seek_partner" -> seek_partner(Log(w, "seek_partner"), a)
      [] OTHER -> random_move(Log(w, "wander"), a)

\* the random breeding trial can pass only while the run may create agents
MayCreate(w) == Len(w.agents) < w.cap

\* _execute_decision: "if decision['breed'] and random.random() < chance"
Herbivore_breed(w, a, breed) ==
    {w} \cup (IF breed /\ MayCreate(w) THEN Herbivore_reproduce(w, a) ELSE {})

\* an execution that eats only when the herbivore went to seek food
Herbivore_execute_decision_eating_on_seek(w, a, decision) ==
    UNION {Herbivore_breed(IF decision.movement = "seek_food" THEN eat_grass(w1, a) ELSE w1,
                           a, decision.breed)
           : w1 \in Herbivore_movement([w EXCEPT !.ev.decision = decision], a, decision)}

\* ev.decision is the decision the stepping agent executes
Herbivore_execute_decision(w, a, decision) ==
    UNION {Herbivore_breed(eat_grass(w1, a), a, decision.breed)
           : w1 \in Herbivore_movement([w EXCEPT !.ev.decision = decision], a, decision)}

\* the step from the scan for predators on
Herbivore_act(w, a) ==
    Herbivore_execute_decision(w, a,
        HerbivoreBrain_decide(Herbivore_gather_inputs(w, a, scan_for_predators(w, a, 3))))

\* "self.steps_without_food <= hunger_levels[-1][0]"
in_lowest_level(swf) == swf <= HERBIVORE_HUNGER_LEVELS[Len(HERBIVORE_HUNGER_LEVELS)][1]

\* the step once the counters are updated: the energy loss is skipped or
\* applied, and the herbivore that survives it acts.  rolls holds the
\* outcomes of "random.random() >= HERBIVORE_ENERGY_LOSS_CHANCE" the step
\* may meet.
Herbivore_hunger(w1, a, w2, rolls) ==
    UNION {Herbivore_act(x, a)
           : x \in {x \in {w1} : in_lowest_level(x.agents[a].steps_without_food)
                                    /\ TRUE \in rolls}
                   \cup {x \in {w2} : /\ \/ ~in_lowest_level(w1.agents[a].steps_without_food)
                                           \/ FALSE \in rolls
                                        /\ reduce_energy_alive(x, a)}}
    \cup {x \in {w2} : /\ \/ ~in_lowest_level(w1.agents[a].steps_without_food)
                            \/ FALSE \in rolls
                         /\ ~reduce_energy_alive(x, a)}

\* the step once the counters are updated
Herbivore_counted(w1, a, rolls) ==
    Herbivore_hunger(w1, a, reduce_energy(w1, a, HERBIVORE_HUNGER_LEVELS), rolls)

Herbivore_step(w, a, rolls) ==
    Herbivore_counted([w EXCEPT !.agents[a].sprint_cooldown = IF @ > 0 THEN @ - 1 ELSE @,
                                !.agents[a].steps_without_food = @ + 1], a, rolls)

----------------------------------------------------------------------------
(* PredatorBrain *)

PredatorBrain_variables ==
    [energy |->
        [low |-> Falling(30, 30), medium |-> Tri(10, 70, 30), high |-> Rising(50, 50)],
     prey_proximity |->
        [far |-> Falling(400, 400), medium |-> Tri(100, 600, 200), near |-> Rising(200, 400)],
     prey_count |->
        [few |-> Falling(200, 200), some |-> Tri(100, 500, 200), many |-> Rising(300, 300)]]

PredatorBrain_rules ==
    << FuzzyRule(<< <<"energy", "low">>, <<"prey_proximity", "near">> >>, <<"hunting", "chase">>, 100),
       FuzzyRule(<< <<"energy", "low">>, <<"prey_proximity", "medium">> >>, <<"hunting", "chase">>, 90),
       FuzzyRule(<< <<"energy", "medium">>, <<"prey_proximity", "near">> >>, <<"hunting", "chase">>, 90),
       FuzzyRule(<< <<"energy", "medium">>, <<"prey_count", "many">> >>, <<"hunting", "chase">>, 80),
       FuzzyRule(<< <<"energy", "medium">>, <<"prey_count", "some">> >>, <<"hunting", "stalk">>, 70),
       FuzzyRule(<< <<"energy", "high">>, <<"prey_proximity", "near">> >>, <<"hunting", "chase">>, 90),
       FuzzyRule(<< <<"energy", "high">>, <<"prey_proximity", "far">>, <<"prey_count", "few">> >>,
                 <<"hunting", "conserve">>, 50),
       FuzzyRule(<< <<"prey_proximity", "near">> >>, <<"hunting", "chase">>, 80),
       FuzzyRule(<< <<"energy", "high">> >>, <<"reproduction", "yes">>, 70),
       FuzzyRule(<< <<"energy", "low">> >>, <<"reproduction", "no">>, 90),
       FuzzyRule(<< <<"energy", "medium">> >>, <<"reproduction", "no">>, 60) >>

PredatorBrain ==
    [input_variables |-> PredatorBrain_variables,
     rules |-> PredatorBrain_rules,
     mu_unit |-> 12 * PREDATOR_MAX_ENERGY * EnergyScale]

\* breed threshold, in hundredths
PREDATOR_BREED_THRESHOLD == 50

PredatorBrain_get_actions(output_strengths) ==
    LET best == BestOption(Options(output_strengths, "hunting"), 0, "conserve")
        best_hunting == IF best \in {"chase", "stalk"} THEN best ELSE "conserve"
        breed_strength == Strength(output_strengths, <<"reproduction", "yes">>)
        no_breed_strength == Strength(output_strengths, <<"reproduction", "no">>)
    IN  [hunting |-> best_hunting,
         breed |-> /\ breed_strength > no_breed_strength
                   /\ breed_strength > PREDATOR_BREED_THRESHOLD * PredatorBrain.mu_unit]

PredatorBrain_decide(input_values) ==
    PredatorBrain_get_actions(infer(PredatorBrain, fuzzify_inputs(PredatorBrain, input_values)))

----------------------------------------------------------------------------
(* src/models/agents/predator.py: Predator *)

\* _gather_inputs, from the herbivores it sees
Predator_inputs(w, a, seen) ==
    [energy |-> Frac(w.agents[a].energy, w.agents[a].max_energy),
     prey_proximity |-> Proximity(MinDist(seen)),
     prey_count |-> Frac(Len(seen), 1)]

Predator_gather_inputs(w, a) ==
    IF ~check_position(w, a)
    THEN [energy |-> Frac(w.agents[a].energy, w.agents[a].max_energy),
          prey_proximity |-> Frac(6, 1), prey_count |-> Frac(0, 1)]
    ELSE Predator_inputs(w, a,
             Sightings(w, w.agents[a].pos,
                       get_neighborhood(w.dim, w.agents[a].pos, FALSE, 4), "herbivore"))

\* the call returns TRUE exactly when hunt_found
hunt_found(w, a) == check_position(w, a) /\ KindIn(w, w.agents[a].pos, "herbivore") # <<>>

\* the energy of a meal of prey without the cap at max_energy
prey_energy_uncapped(energy, max_energy) == energy + PREDATOR_PREY_ENERGY_VALUE * EnergyScale

\* energy += PREDATOR_PREY_ENERGY_VALUE; energy = min(energy, max_energy)
prey_energy(energy, max_energy) == Min2(energy + PREDATOR_PREY_ENERGY_VALUE * EnergyScale, max_energy)

\* a hunt that leaves the eaten herbivore on the grid
hunt_leaving_prey(w, a) ==
    IF ~hunt_found(w, a) THEN w
    ELSE Log([w EXCEPT !.agents[a].energy = prey_energy(@, w.agents[a].max_energy),
                       !.agents[a].steps_without_food = 0], "hunt")

hunt(w, a) ==
    IF ~hunt_found(w, a) THEN w
    ELSE Log(remove_agent(
                [w EXCEPT !.agents[a].energy = prey_energy(@, w.agents[a].max_energy),
                          !.agents[a].steps_without_food = 0],
                Head(KindIn(w, w.agents[a].pos, "herbivore"))), "hunt")

\* best_cell: None when there are no neighbours
ClosestOrNone(cells, target_cell) ==
    IF cells = <<>> THEN NoPos ELSE ClosestTo(cells, target_cell)

\* the immediate neighbour that is first among those nearest to target_cell
BestNeighbor(w, a, target_cell) ==
    ClosestOrNone(get_neighborhood(w.dim, w.agents[a].pos, FALSE, 1), target_cell)

\* "if best_cell: self.move_to(best_cell) else: self.random_move()"
MoveToOrRandom(w, a, best_cell) ==
    IF best_cell # NoPos THEN {move_to(w, a, best_cell)} ELSE random_move(w, a)

\* the move to the prey's cell when it is adjacent, else towards it
ChaseTo(w, a, target_cell) ==
    IF calculate_distance(w.agents[a].pos, target_cell) = 1 THEN {move_to(w, a, target_cell)}
    ELSE MoveToOrRandom(w, a, BestNeighbor(w, a, target_cell))

\* _chase_prey, from the cells with prey on
ChaseAmong(w, a, prey_cells) ==
    IF prey_cells = <<>> THEN random_move(w, a)
    ELSE ChaseTo(w, a,
             SortedBy(prey_cells,
                      [i \in DOMAIN prey_cells |->
                          calculate_distance(w.agents[a].pos, prey_cells[i])])[1])

\* the cells of the neighbourhood that hold a herbivore
PreyCells(w, a, radius) ==
    SelectSeq(get_neighborhood(w.dim, w.agents[a].pos, FALSE, radius),
              LAMBDA c : KindIn(w, c, "herbivore") # <<>>)

chase_prey(w, a) ==
    IF ~check_position(w, a) THEN {w} ELSE ChaseAmong(w, a, PreyCells(w, a, 3))

\* _stalk_prey, from the cells with prey on
StalkAmong(w, a, prey_cells) ==
    IF prey_cells = <<>> THEN random_move(w, a)
    ELSE UNION {MoveToOrRandom(w, a, BestNeighbor(w, a, prey_cells[i]))
                : i \in DOMAIN prey_cells}

stalk_prey(w, a) ==
    IF ~check_position(w, a) THEN {w} ELSE StalkAmong(w, a, PreyCells(w, a, 2))

\* self.energy *= PREDATOR_BREEDING_ENERGY_COST
Predator_parent_energy(original_energy) ==
    (original_energy * PREDATOR_BREEDING_ENERGY_COST) \div 100

\* original_energy * PREDATOR_OFFSPRING_ENERGY_FACTOR
Predator_offspring_energy(original_energy) ==
    (original_energy * PREDATOR_OFFSPRING_ENERGY_FACTOR) \div 100

Predator_reproduce(w, a) ==
    {Reproduced(w, a, w2)
     : w2 \in place_offspring(
                 Log([w EXCEPT !.agents[a].energy = Predator_parent_energy(@),
                               !.agents[a].breeding_cooldown = PREDATOR_BREEDING_COOLDOWN],
                     "reproduce"),
                 a, NewPredator(Predator_offspring_energy(w.agents[a].energy)))}

\* _execute_decision: the hunting branch; a chase hunts before it moves,
\* the others after
Predator_hunting(w, a, decision) ==
    CASE decision.hunting = "chase" /\ hunt_found(w, a) -> {hunt(Log(w, "chase"), a)}
      [] decision.hunting = "chase" /\ ~hunt_found(w, a) -> chase_prey(Log(w, "chase"), a)
      [] decision.hunting = "stalk" -> {hunt(w1, a) : w1 \in stalk_prey(Log(w, "stalk"), a)}
      [] OTHER -> {hunt(w1, a) : w1 \in random_move(Log(w, "conserve"), a)}

\* a breeding trial that no cooldown holds back
Predator_breed_any_cooldown(w, a, breed) ==
    {w} \cup (IF breed /\ MayCreate(w) THEN Predator_reproduce(w, a) ELSE {})

\* _execute_decision: "if decision['breed'] and random.random() < chance
\* and self.breeding_cooldown == 0"
Predator_breed(w, a, breed) ==
    {w} \cup (IF breed /\ MayCreate(w) /\ w.agents[a].breeding_cooldown = 0
              THEN Predator_reproduce(w, a) ELSE {})

Predator_execute_decision(w, a, decision) ==
    UNION {Predator_breed(w1, a, decision.breed)
           : w1 \in Predator_hunting([w EXCEPT !.ev.decision = decision], a, decision)}

\* the step once the energy loss is applied
Predator_hunger(w2, a) ==
    IF reduce_energy_alive(w2, a)
    THEN Predator_execute_decision(w2, a, PredatorBrain_decide(Predator_gather_inputs(w2, a)))
    ELSE {w2}

Predator_step(w, a) ==
    Predator_hunger(
        reduce_energy([w EXCEPT !.agents[a].breeding_cooldown = IF @ > 0 THEN @ - 1 ELSE @,
                                !.agents[a].steps_without_food = @ + 1],
                      a, PREDATOR_HUNGER_LEVELS), a)

----------------------------------------------------------------------------
(* src/models/agents/grass.py: Grass *)

PlaceNew(w, agent, pos) == place_agent([w EXCEPT !.agents = Append(@, agent)], Len(w.agents) + 1, pos)

\* the spread to one of the neighbours, which fails on a cell with grass
SpreadAmong(w, neighbors) ==
    {IF KindIn(w, neighbors[i], "grass") = <<>>
     THEN PlaceNew(w, NewGrass, neighbors[i]) ELSE w
     : i \in DOMAIN neighbors} \cup {w}

try_spread(w, a) ==
    IF w.agents[a].pos = NoPos THEN {w}
    ELSE SpreadAmong(w, get_neighborhood(w.dim, w.agents[a].pos, FALSE, 1))

\* random.random() < GRASS_SPREAD_CHANCE passes or fails
Grass_step(w, a) == {w} \cup (IF MayCreate(w) THEN try_spread(w, a) ELSE {})

----------------------------------------------------------------------------
(* src/models/simulation.py: PPModel *)

\* the number of the grass agents in the list
CountGrass(w, all_agents) == Cardinality({i \in DOMAIN all_agents : is_grass(w, all_agents[i])})

compute_grass_count(w) == CountGrass(w, get_all_agents(w))

\* max_new_patches for the grass coverage, grass_count / (width * height) * 100
PatchesFor(grass_count, cells) ==
    IF grass_count * 100 < 10 * cells THEN 6
    ELSE IF grass_count * 100 < 20 * cells THEN 3
    ELSE 1

max_new_patches(w) == PatchesFor(compute_grass_count(w), w.dim[1] * w.dim[2])

\* one new patch: up to max_tries random cells, the first without grass
\* takes the patch; every try may hit a cell with grass
GrowPatch(w) ==
    {PlaceNew(w, NewGrass, c) : c \in {c \in CellsOf(w.dim) : KindIn(w, c, "grass") = <<>>}}
    \cup (IF \E c \in CellsOf(w.dim) : KindIn(w, c, "grass") # <<>> THEN {w} ELSE {})

RECURSIVE GrowPatches(_, _)
GrowPatches(ws, k) ==
    IF k = 0 THEN ws ELSE GrowPatches(UNION {GrowPatch(w) : w \in ws}, k - 1)

grow_grass(w) ==
    {w} \cup UNION {GrowPatches({w}, num_new_grass)
                    : num_new_grass \in 1..Min2(max_new_patches(w), w.cap - Len(w.agents))}

----------------------------------------------------------------------------
(* The state and the tick *)

World == [dim |-> dim, cap |-> cap, agents |-> agents, grid |-> grid, ev |-> ev]

SetWorld(w) == agents' = w.agents /\ grid' = w.grid /\ ev' = w.ev /\ UNCHANGED <<dim, cap>>

NoRepro == [parent |-> 0, before |-> 0, after |-> 0, offspring |-> 0, offspring_energy |-> 0,
            offspring_max |-> 0, placed |-> FALSE, free |-> {}]

\* the record of what a step does, emptied as agent a starts its step
StartStep(w, a) ==
    [w EXCEPT !.ev.log = <<>>, !.ev.actor = a, !.ev.repro = NoRepro, !.ev.decision = <<>>]

NoEvents == [log |-> <<>>, actor |-> 0, repro |-> NoRepro, zeroed |-> {}, decision |-> <<>>]

\* the grid that holds the agents at their positions, placed in order
RECURSIVE PlaceAll(_, _)
PlaceAll(w, k) ==
    IF k = 0 THEN w
    ELSE LET w1 == PlaceAll(w, k - 1)
         IN  IF w.agents[k].pos = NoPos THEN w1
             ELSE place_agent([w1 EXCEPT !.agents[k].pos = NoPos], k, w.agents[k].pos)

EmptyGrid(d) == [c \in CellsOf(d) |-> <<>>]

\* stepped[a]: how often the loop of the tick has called a's step (steps) and
\* how often it has passed a over (skips)
\* and how often it did so while a was off the grid (steps_off), or passed a
\* over while a was on the grid (skips_on)
NoVisit == [steps |-> 0, skips |-> 0, steps_off |-> 0, skips_on |-> 0]

Visited(st, a, called, on_grid) ==
    LET ext == [b \in 1..Max2(Len(st), a) |-> IF b \in DOMAIN st THEN st[b] ELSE NoVisit]
    IN  [ext EXCEPT ![a] =
            IF called
            THEN [@ EXCEPT !.steps = @ + 1, !.steps_off = IF on_grid THEN @ ELSE @ + 1]
            ELSE [@ EXCEPT !.skips = @ + 1, !.skips_on = IF on_grid THEN @ + 1 ELSE @]]

\* a loop that steps every agent of the work list
ShouldStep_always(w, a) == TRUE

\* PPModel.step: "if agent.pos is not None"
ShouldStep(w, a) == w.agents[a].pos # NoPos

\* PPModel.step: the work list of the tick
\* model.step() up to the loop over the agents
StartTick ==
    /\ phase = "idle"
    /\ snapshot' = get_all_agents(World)
    /\ pending' = get_all_agents(World)
    /\ stepped' = [a \in DOMAIN agents |-> NoVisit]
    /\ phase' = "run"
    /\ ev' = [ev EXCEPT !.zeroed = {}, !.log = <<>>, !.actor = 0, !.repro = NoRepro]
    /\ lastOp' = "begin"
    /\ UNCHANGED <<dim, cap, agents, grid, tick, probe>>

\* a tick of a run of at most MaxTicks ticks
BeginTick == tick < MaxTicks /\ StartTick

\* the next agent of the shuffled work list: any agent still pending; ws are
\* the worlds its step can leave
Visit(i, ws) ==
    /\ phase = "run"
    /\ ShouldStep(World, pending[i])
    /\ pending' = RemoveAt(pending, i)
    /\ stepped' = Visited(stepped, pending[i], TRUE, agents[pending[i]].pos # NoPos)
    /\ \E w \in ws : SetWorld(w)
    /\ lastOp' = "step"
    /\ UNCHANGED <<snapshot, tick, phase, probe>>

StepHerbivore ==
    \E i \in DOMAIN pending :
        /\ agents[pending[i]].kind = "herbivore"
        /\ Visit(i, Herbivore_step(StartStep(World, pending[i]), pending[i], BOOLEAN))

StepPredator ==
    \E i \in DOMAIN pending :
        /\ agents[pending[i]].kind = "predator"
        /\ Visit(i, Predator_step(StartStep(World, pending[i]), pending[i]))

StepGrass ==
    \E i \in DOMAIN pending :
        /\ agents[pending[i]].kind = "grass"
        /\ Visit(i, Grass_step(StartStep(World, pending[i]), pending[i]))

\* an agent of the work list that is not stepped
SkipRemoved ==
    \E i \in DOMAIN pending :
        /\ phase = "run"
        /\ ~ShouldStep(World, pending[i])
        /\ pending' = RemoveAt(pending, i)
        /\ stepped' = Visited(stepped, pending[i], FALSE, agents[pending[i]].pos # NoPos)
        /\ lastOp' = "skip"
        /\ UNCHANGED <<dim, cap, agents, grid, ev, snapshot, tick, phase, probe>>

\* the end of model.step(): the grass grows; t ticks are counted then
FinishTick(t) ==
    /\ phase = "run"
    /\ pending = <<>>
    /\ \E w \in grow_grass(World) : SetWorld(w)
    /\ tick' = t
    /\ phase' = "idle"
    /\ lastOp' = "end"
    /\ UNCHANGED <<pending, snapshot, stepped, probe>>

EndTick == FinishTick(tick + 1)

\* (energy in tenths, steps_without_food, cooldown) of the animals the world starts with
HerbivoreProfiles == {<<1000, 0, 0>>, <<495, 5, 0>>, <<50, 75, 0>>, <<2, 87, 3>>}
PredatorProfiles == {<<1500, 0, 0>>, <<800, 0, 0>>, <<2, 84, 0>>}

InitCells == {<<0, 0>>, <<1, 0>>, <<2, 0>>}

MkHerbivore(p, pos) ==
    [NewHerbivore(p[1] * (EnergyScale \div 10)) EXCEPT
        !.steps_without_food = p[2], !.sprint_cooldown = p[3], !.pos = pos]

MkPredator(p, pos) ==
    [NewPredator(p[1] * (EnergyScale \div 10)) EXCEPT
        !.steps_without_food = p[2], !.breeding_cooldown = p[3], !.pos = pos]

MkGrass(pos) == [NewGrass EXCEPT !.pos = pos]

\* the world of the agents as on a grid of dimensions d, in a run that may
\* create new_agents agents
InitWorldOf(as, d, new_agents) ==
    /\ dim = d
    /\ cap = Len(as) + new_agents
    /\ agents = as
    /\ grid = PlaceAll([dim |-> d, cap |-> 0, agents |-> as, grid |-> EmptyGrid(d), ev |-> NoEvents],
                       Len(as)).grid
    /\ ev = NoEvents
    /\ pending = <<>>
    /\ snapshot = <<>>
    /\ stepped = <<>>
    /\ tick = 0
    /\ phase = "idle"
    /\ lastOp = "init"
    /\ probe = <<>>

InitWorld(as, d) == InitWorldOf(as, d, MaxNew)

Init ==
    \E hp \in HerbivoreProfiles, pp \in PredatorProfiles, hc \in InitCells, gc \in InitCells :
        InitWorld(<< MkPredator(pp, <<1, 0>>), MkHerbivore(hp, hc), MkGrass(gc) >>, <<Width, Height>>)

Next == BeginTick \/ StepHerbivore \/ StepPredator \/ StepGrass \/ SkipRemoved \/ EndTick

Spec == Init /\ [][Next]_vars


-----------------------------------------------------------------------------
(* Direct calls of step() and reproduce() on the animals of a crowded world: *)
(* two herbivores in every cell, one predator, and two animals that have     *)
(* left the grid, a herbivore that was eaten and a predator that starved     *)

RECURSIVE Crowd(_, _)
Crowd(cells, hp) ==
    IF cells = <<>> THEN <<>>
    ELSE << MkHerbivore(hp, Head(cells)), MkHerbivore(hp, Head(cells)) >> \o Crowd(Tail(cells), hp)

EatenHerbivore == MkHerbivore(<<495, 5, 0>>, NoPos)
StarvedPredator == MkPredator(<<-6, 85, 0>>, NoPos)

InitApi ==
    \E hp \in HerbivoreProfiles, pp \in PredatorProfiles :
        InitWorld(<< EatenHerbivore, StarvedPredator, MkPredator(pp, <<0, 0>>) >>
                      \o Crowd(CoordIter(<<Width, Height>>), hp),
                  <<Width, Height>>)

\* probe: the agent called and its record before the call
Called(a, w) == [agent |-> a, before |-> agents[a], agents_before |-> agents,
                 grid_before |-> grid, on_grid |-> agents[a].pos # NoPos]

\* agent.step(), called on any animal, on the grid or not
ApiStep ==
    \E a \in {b \in DOMAIN agents : agents[b].kind # "grass"} :
        /\ tick < MaxTicks
        /\ \E w \in (IF agents[a].kind = "herbivore"
                      THEN Herbivore_step(StartStep(World, a), a, BOOLEAN)
                      ELSE Predator_step(StartStep(World, a), a)) : SetWorld(w)
        /\ probe' = Called(a, World)
        /\ tick' = tick + 1
        /\ lastOp' = "api_step"
        /\ UNCHANGED <<pending, snapshot, stepped, phase>>

\* agent.reproduce(), called on any animal on the grid
ApiReproduce ==
    \E a \in {b \in DOMAIN agents : agents[b].kind # "grass" /\ agents[b].pos # NoPos} :
        /\ tick < MaxTicks
        /\ MayCreate(World)
        /\ \E w \in (IF agents[a].kind = "herbivore"
                      THEN Herbivore_reproduce(StartStep(World, a), a)
                      ELSE Predator_reproduce(StartStep(World, a), a)) : SetWorld(w)
        /\ probe' = Called(a, World)
        /\ tick' = tick + 1
        /\ lastOp' = "api_reproduce"
        /\ UNCHANGED <<pending, snapshot, stepped, phase>>

NextApi == ApiStep \/ ApiReproduce

SpecApi == InitApi /\ [][NextApi]_vars

-----------------------------------------------------------------------------
(* HerbivoreBrain.decide on drawn inputs, and the execution of its decision *)

EnergySteps == 20
SprintCooldowns == {0, 1, SPRINT_COOLDOWN}
\* the proximities _gather_inputs can report: min(6, dist)
Proximities == 0..6

InitDecide ==
    \E k \in 0..EnergySteps, c \in SprintCooldowns :
        InitWorld(<< [NewHerbivore((k * HERBIVORE_MAX_ENERGY * EnergyScale) \div EnergySteps)
                         EXCEPT !.pos = <<0, 0>>, !.sprint_cooldown = c],
                     MkPredator(<<800, 0, 0>>, <<1, 0>>),
                     MkGrass(<<2, 0>>) >>,
                  <<Width, Height>>)

DecideHerbivore ==
    \E f \in Proximities, p \in Proximities :
        LET input_values == [energy |-> Frac(agents[1].energy, agents[1].max_energy),
                             food_proximity |-> Frac(f, 1),
                             predator_proximity |-> Frac(p, 1)]
            decision == HerbivoreBrain_decide(input_values)
        IN  /\ probe = <<>>
            /\ probe' = [inputs |-> input_values, decision |-> decision,
                         cooldown |-> agents[1].sprint_cooldown]
            /\ \E w \in Herbivore_execute_decision(StartStep(World, 1), 1, decision) : SetWorld(w)
            /\ lastOp' = "decide"
            /\ UNCHANGED <<pending, snapshot, stepped, tick, phase>>

NextDecide == DecideHerbivore

SpecDecide == InitDecide /\ [][NextDecide]_vars

-----------------------------------------------------------------------------
(* PredatorBrain.decide on drawn inputs, and direct calls of hunt(), for a   *)
(* predator that shares its cell with up to MaxPrey herbivores               *)

MaxPrey == 2
\* the prey counts _gather_inputs can report within radius 4
PreyCounts == 0..8

RECURSIVE Herd(_, _, _)
Herd(k, hp, pos) == IF k = 0 THEN <<>> ELSE <<MkHerbivore(hp, pos)>> \o Herd(k - 1, hp, pos)

\* a predator that has starved down to a fifth of its max_energy
HungryPredator == <<300, 48, 0>>

InitPredator ==
    \E pp \in PredatorProfiles \cup {HungryPredator}, k \in 0..MaxPrey :
        InitWorld(<< MkPredator(pp, <<0, 0>>), StarvedPredator >>
                      \o Herd(k, <<495, 5, 0>>, <<0, 0>>)
                      \o << MkHerbivore(<<495, 5, 0>>, <<1, 0>>), MkGrass(<<0, 0>>) >>,
                  <<Width, Height>>)

\* probe: the inputs, the decision, and the predator and the world before
\* the decision is executed
DecidedOn(a, input_values, decision) ==
    [inputs |-> input_values, decision |-> decision, agent |-> a, before |-> agents[a],
     agents_before |-> agents, grid_before |-> grid, on_grid |-> agents[a].pos # NoPos]

\* "decision = self.brain.decide(inputs); self._execute_decision(decision)"
\* for predator 1
DecidePredator ==
    /\ lastOp = "init"
    /\ \E p \in Proximities, c \in PreyCounts :
        /\ probe' = DecidedOn(1, [energy |-> Frac(agents[1].energy, agents[1].max_energy),
                                  prey_proximity |-> Frac(p, 1),
                                  prey_count |-> Frac(c, 1)],
                              PredatorBrain_decide(
                                  [energy |-> Frac(agents[1].energy, agents[1].max_energy),
                                   prey_proximity |-> Frac(p, 1),
                                   prey_count |-> Frac(c, 1)]))
        /\ \E w \in Predator_execute_decision(
                         StartStep(World, 1), 1,
                         PredatorBrain_decide(
                             [energy |-> Frac(agents[1].energy, agents[1].max_energy),
                              prey_proximity |-> Frac(p, 1),
                              prey_count |-> Frac(c, 1)])) : SetWorld(w)
        /\ lastOp' = "decide_predator"
        /\ UNCHANGED <<pending, snapshot, stepped, tick, phase>>

\* agent.hunt(), called on a predator, on the grid or not
ApiHunt ==
    \E a \in {b \in DOMAIN agents : agents[b].kind = "predator"} :
        /\ lastOp # "decide_predator"
        /\ tick < MaxTicks + MaxPrey
        /\ SetWorld(hunt(StartStep(World, a), a))
        /\ probe' = Called(a, World)
        /\ tick' = tick + 1
        /\ lastOp' = "api_hunt"
        /\ UNCHANGED <<pending, snapshot, stepped, phase>>

NextPredator == DecidePredator \/ ApiHunt

SpecPredator == InitPredator /\ [][NextPredator]_vars

-----------------------------------------------------------------------------
(* get_neighbors on grids of several sizes: PPModel takes width and height   *)
(* as parameters and builds MultiGrid(width, height, True)                   *)

Sides == {1, 2, 3, 4, 10}

InitGrid ==
    \E wd \in Sides, ht \in Sides :
        \E pos \in CellsOf(<<wd, ht>>) :
            InitWorld(<< MkHerbivore(<<1000, 0, 0>>, pos), StarvedPredator >>, <<wd, ht>>)

\* agent.get_neighbors(include_center), called on an animal, on the grid or not
ApiGetNeighbors ==
    /\ lastOp = "init"
    /\ \E a \in DOMAIN agents, include_center \in BOOLEAN :
        /\ probe' = [agent |-> a, include_center |-> include_center,
                     cells |-> get_neighbors(World, a, include_center)]
        /\ lastOp' = "api_get_neighbors"
        /\ UNCHANGED <<dim, cap, agents, grid, ev, pending, snapshot, stepped, tick, phase>>

NextGrid == ApiGetNeighbors

SpecGrid == InitGrid /\ [][NextGrid]_vars

-----------------------------------------------------------------------------
(* The fuzzy engine called directly: rules evaluated on fuzzified inputs,    *)
(* variables fuzzified, and decide called on snapshots that hold all, some   *)
(* or none of a brain's input variables                                      *)

Species == {"herbivore", "predator"}

Brains == [herbivore |-> HerbivoreBrain, predator |-> PredatorBrain]

\* energy / max_energy for the energies k / EnergySteps of max_energy
EnergyInputs(max_energy) ==
    {Frac((k * max_energy * EnergyScale) \div EnergySteps, max_energy * EnergyScale) :
        k \in 0..EnergySteps}

\* the snapshot with the variables vs only
Only(input_values, vs) == [v \in vs |-> input_values[v]]

HerbivoreSnapshots ==
    UNION {{Only([energy |-> e, food_proximity |-> Frac(f, 1),
                  predator_proximity |-> Frac(p, 1)], vs) :
                e \in EnergyInputs(HERBIVORE_MAX_ENERGY), f \in Proximities, p \in Proximities} :
           vs \in SUBSET {"energy", "food_proximity", "predator_proximity"}}

PredatorSnapshots ==
    UNION {{Only([energy |-> e, prey_proximity |-> Frac(p, 1), prey_count |-> Frac(c, 1)], vs) :
                e \in EnergyInputs(PREDATOR_MAX_ENERGY), p \in Proximities, c \in PreyCounts} :
           vs \in SUBSET {"energy", "prey_proximity", "prey_count"}}

Snapshots == [herbivore |-> HerbivoreSnapshots, predator |-> PredatorSnapshots]

InitBrain ==
    InitWorld(<< MkHerbivore(<<1000, 0, 0>>, <<0, 0>>), MkPredator(<<1500, 0, 0>>, <<1, 0>>) >>,
              <<Width, Height>>)

\* the brain after a call of decide that drops the first rule
brain_after_decide_forgetting(brain, input_values) == [brain EXCEPT !.rules = Tail(@)]

\* the brain after decide(input_values): fuzzify_inputs, infer, decide and
\* _get_actions assign no attribute of the brain, of its rules or of its
\* variables
brain_after_decide(brain, input_values) == brain

\* brain.decide(input_values), for a brain of the species
decide(species, brain, input_values) ==
    IF species = "herbivore"
    THEN HerbivoreBrain_get_actions(infer(brain, fuzzify_inputs(brain, input_values)))
    ELSE PredatorBrain_get_actions(infer(brain, fuzzify_inputs(brain, input_values)))

\* probe: what a call of decide, and a second call with the same inputs, return
Decided2(species, brain, input_values, fuzzified_inputs, brain_after) ==
    [species |-> species, inputs |-> input_values,
     brain_before |-> brain,
     fuzzified_inputs |-> fuzzified_inputs,
     firing |-> [i \in DOMAIN brain.rules |-> evaluate(brain.rules[i], fuzzified_inputs)],
     output_strengths |-> infer(brain, fuzzified_inputs),
     decision |-> decide(species, brain, input_values),
     brain_after |-> brain_after,
     again |-> decide(species, brain_after, input_values)]

\* brain.decide(input_values), called twice
ApiDecide ==
    /\ lastOp = "init"
    /\ \E species \in Species :
        \E input_values \in Snapshots[species] :
            /\ probe' = Decided2(species, Brains[species], input_values,
                                 fuzzify_inputs(Brains[species], input_values),
                                 brain_after_decide(Brains[species], input_values))
            /\ lastOp' = "api_decide"
            /\ UNCHANGED <<dim, cap, agents, grid, ev, pending, snapshot, stepped, tick, phase>>

StrengthLevels == 2

\* the consequents of the rules in the order infer first meets them, which
\* is the order of the keys of its output_strengths
RECURSIVE KeysInOrder(_, _)
KeysInOrder(rules, keys) ==
    IF rules = <<>> THEN keys
    ELSE KeysInOrder(Tail(rules),
                     IF Head(rules).consequent \in SeqToSet(keys) THEN keys
                     ELSE Append(keys, Head(rules).consequent))

\* the output_strengths with a quarter of level[i] as the strength of the
\* i-th key, and no entry for a key of level 0
StrengthsAt(keys, level, unit) ==
    SelectSeq([i \in DOMAIN keys |-> [key |-> keys[i], strength |-> level[i] * 25 * unit]],
              LAMBDA e : e.strength > 0)

\* HerbivoreBrain()._get_actions(output_strengths)
ApiGetActions ==
    /\ lastOp = "init"
    /\ \E level \in [DOMAIN KeysInOrder(HerbivoreBrain.rules, <<>>) -> 0..StrengthLevels] :
            probe' = [species |-> "herbivore",
                      output_strengths |-> StrengthsAt(KeysInOrder(HerbivoreBrain.rules, <<>>),
                                                       level, HerbivoreBrain.mu_unit),
                      decision |-> HerbivoreBrain_get_actions(
                                       StrengthsAt(KeysInOrder(HerbivoreBrain.rules, <<>>),
                                                   level, HerbivoreBrain.mu_unit))]
    /\ lastOp' = "api_get_actions"
    /\ UNCHANGED <<dim, cap, agents, grid, ev, pending, snapshot, stepped, tick, phase>>

\* crisp values: whole numbers, halves and twentieths in and around the
\* domains of the variables, and two values far outside them
CrispInputs ==
    {Frac(n, d) : n \in -30..30, d \in {1, 2, 20}}
        \cup {Frac(-1000000, 1), Frac(1000000, 1)}

\* brain.input_variables[variable].fuzzify(value)
ApiFuzzify ==
    /\ lastOp = "init"
    /\ \E species \in Species :
        \E variable \in DOMAIN Brains[species].input_variables, value \in CrispInputs :
            probe' = [species |-> species, variable |-> variable, value |-> value,
                      degrees |-> fuzzify(Brains[species].input_variables[variable], value,
                                          Brains[species].mu_unit)]
    /\ lastOp' = "api_fuzzify"
    /\ UNCHANGED <<dim, cap, agents, grid, ev, pending, snapshot, stepped, tick, phase>>

\* rule.evaluate(fuzzified_inputs), for a rule of either brain and the
\* fuzzified inputs of either brain
ApiEvaluate ==
    /\ lastOp = "init"
    /\ \E rule_of \in Species, inputs_of \in Species :
        \E i \in DOMAIN Brains[rule_of].rules, input_values \in Snapshots[inputs_of] :
            /\ probe' = [rule |-> Brains[rule_of].rules[i],
                         fuzzified_inputs |-> fuzzify_inputs(Brains[inputs_of], input_values),
                         strength |-> evaluate(Brains[rule_of].rules[i],
                                               fuzzify_inputs(Brains[inputs_of], input_values))]
            /\ lastOp' = "api_evaluate"
            /\ UNCHANGED <<dim, cap, agents, grid, ev, pending, snapshot, stepped, tick, phase>>

NextBrain == ApiEvaluate \/ ApiDecide \/ ApiGetActions \/ ApiFuzzify

SpecBrain == InitBrain /\ [][NextBrain]_vars

-----------------------------------------------------------------------------
(* _gather_inputs called directly: a herbivore at (0,0), and a predator and  *)
(* a grass patch in any cells of grids of three sizes; the predator looks    *)
(* for the herbivore and the herbivore for the other two                     *)

SenseDims == {<<3, 1>>, <<10, 1>>, <<10, 10>>}

InitSense ==
    \E d \in SenseDims :
        \E pc \in CellsOf(d), gc \in CellsOf(d) :
            InitWorld(<< MkHerbivore(<<1000, 0, 0>>, <<0, 0>>), MkPredator(<<1500, 0, 0>>, pc),
                         MkGrass(gc) >>, d)

\* herbivore.step's "predator_info = self._scan_for_predators(radius=3);
\* inputs = self._gather_inputs(predator_info)"
ApiHerbivoreInputs ==
    /\ lastOp = "init"
    /\ probe' = [agent |-> 1,
                 inputs |-> Herbivore_gather_inputs(World, 1, scan_for_predators(World, 1, 3))]
    /\ lastOp' = "api_inputs"
    /\ UNCHANGED <<dim, cap, agents, grid, ev, pending, snapshot, stepped, tick, phase>>

\* predator.step's "inputs = self._gather_inputs()"
ApiPredatorInputs ==
    /\ lastOp = "init"
    /\ probe' = [agent |-> 2, inputs |-> Predator_gather_inputs(World, 2)]
    /\ lastOp' = "api_inputs"
    /\ UNCHANGED <<dim, cap, agents, grid, ev, pending, snapshot, stepped, tick, phase>>

NextSense == ApiHerbivoreInputs \/ ApiPredatorInputs

SpecSense == InitSense /\ [][NextSense]_vars

-----------------------------------------------------------------------------
(* The lives of one herbivore and one predator: step() called on either, up  *)
(* to LifeSteps times, with the outcome of the herbivore's hunger roll named.*)
(* The probe counts each animal's steps since its last sprint and since its  *)
(* last reproduction; an animal that starts with a cooldown c running has    *)
(* set it cooldown - c steps ago.                                            *)

LifeSteps == 3

\* <<energy in tenths, steps_without_food, sprint_cooldown>>
LifeHerbivores ==
    {<<1000, 0, 0>>, <<900, 3, 1>>, <<495, 9, 5>>, <<495, 10, 2>>, <<300, 20, 0>>,
     <<100, 19, 3>>, <<50, 75, 4>>}

\* <<energy in tenths, steps_without_food, breeding_cooldown>>
LifePredators ==
    {<<1500, 0, 0>>, <<1500, 6, 1>>, <<1400, 7, PREDATOR_BREEDING_COOLDOWN>>,
     <<800, 15, PREDATOR_BREEDING_COOLDOWN - 1>>, <<800, 14, 2>>, <<300, 48, 0>>}

\* the numbers of grass units in the one cell that holds grass
GrassPatches == {1, 2}

InitLife ==
    \E hp \in LifeHerbivores, pp \in LifePredators, hc \in InitCells, gc \in InitCells,
       n \in GrassPatches :
        InitWorld(<< MkHerbivore(hp, hc), MkPredator(pp, <<1, 0>>) >>
                      \o [i \in 1..n |-> MkGrass(gc)],
                  <<Width, Height>>)

\* the steps since the cooldown was set, as far as the cooldown tells
SinceSet(cooldown, set_to) == set_to - cooldown

\* the steps of the herbivore since its last sprint, and of the predator
\* since its last reproduction, before the step that is about to be made
SinceSprint ==
    IF lastOp = "init" THEN SinceSet(agents[1].sprint_cooldown, SPRINT_COOLDOWN)
    ELSE probe.since_sprint

SinceRepro ==
    IF lastOp = "init" THEN SinceSet(agents[2].breeding_cooldown, PREDATOR_BREEDING_COOLDOWN)
    ELSE probe.since_repro

\* probe: the agent stepped, the world before its step, the roll, and the
\* counts of steps before and after the step that led to world w
Lived(a, roll, w, since_sprint, since_repro) ==
    [agent |-> a, before |-> agents[a], agents_before |-> agents, grid_before |-> grid,
     on_grid |-> agents[a].pos # NoPos, roll |-> roll,
     since_sprint_before |-> since_sprint,
     since_repro_before |-> since_repro,
     since_sprint |-> IF a # 1 THEN since_sprint
                      ELSE IF \E i \in DOMAIN w.ev.log : w.ev.log[i] = "sprint" THEN 0
                      ELSE Min2(SPRINT_COOLDOWN, since_sprint + 1),
     since_repro |-> IF a # 2 THEN since_repro
                     ELSE IF \E i \in DOMAIN w.ev.log : w.ev.log[i] = "reproduce" THEN 0
                     ELSE Min2(PREDATOR_BREEDING_COOLDOWN, since_repro + 1)]

\* herbivore 1's step() when random.random() >= HERBIVORE_ENERGY_LOSS_CHANCE
\* is roll
LifeStepHerbivore(roll) ==
    /\ tick < LifeSteps
    /\ agents[1].pos # NoPos
    /\ \E w \in Herbivore_step(StartStep(World, 1), 1, {roll}) :
          /\ SetWorld(w)
          /\ probe' = Lived(1, roll, w, SinceSprint, SinceRepro)
    /\ tick' = tick + 1
    /\ lastOp' = "life_step"
    /\ UNCHANGED <<pending, snapshot, stepped, phase>>

StepSpared == LifeStepHerbivore(TRUE)

StepCharged == LifeStepHerbivore(FALSE)

\* predator 2's step()
LifeStepPredator ==
    /\ tick < LifeSteps
    /\ agents[2].pos # NoPos
    /\ \E w \in Predator_step(StartStep(World, 2), 2) :
          /\ SetWorld(w)
          /\ probe' = Lived(2, FALSE, w, SinceSprint, SinceRepro)
    /\ tick' = tick + 1
    /\ lastOp' = "life_step"
    /\ UNCHANGED <<pending, snapshot, stepped, phase>>

NextLife == StepSpared \/ StepCharged \/ LifeStepPredator

SpecLife == InitLife /\ [][NextLife]_vars

-----------------------------------------------------------------------------
(* The ticking world with consumers that share their food: two predators in  *)
(* one cell with a herbivore in any cell, or two herbivores in one cell with *)
(* a grass unit in any cell.                                                 *)

InitShared ==
    \E hc \in InitCells, c \in InitCells :
        \/ InitWorld(<< MkPredator(<<1500, 0, 0>>, c), MkPredator(<<800, 0, 0>>, c),
                        MkHerbivore(<<1000, 0, 0>>, hc) >>, <<Width, Height>>)
        \/ InitWorld(<< MkHerbivore(<<1000, 0, 0>>, hc), MkHerbivore(<<495, 5, 0>>, hc),
                        MkGrass(c) >>, <<Width, Height>>)

SpecShared == InitShared /\ [][Next]_vars

-----------------------------------------------------------------------------
(* Ticks without end: model.step() is called again and again on a world of   *)
(* a weak predator, a weak herbivore and one grass unit. The ticks are not   *)
(* counted. The driver calls model.step() whenever the last call has         *)
(* returned, and model.step() returns when its loop is through: a tick       *)
(* begins whenever the world is idle and ends whenever no agent is pending.  *)
(* The run creates no agents: no grass grows and no breeding trial passes.   *)

InitForever ==
    \E hc \in InitCells :
        InitWorldOf(<< MkPredator(<<20, 0, 0>>, <<1, 0>>), MkHerbivore(<<10, 0, 0>>, hc),
                       MkGrass(<<0, 0>>) >>, <<Width, Height>>, 0)

\* the end of a tick that is not counted
EndTickUncounted == FinishTick(tick)

NextForever ==
    StartTick \/ StepHerbivore \/ StepPredator \/ StepGrass \/ SkipRemoved \/ EndTickUncounted

SpecForever ==
    InitForever /\ [][NextForever]_vars /\ WF_vars(StartTick) /\ WF_vars(EndTickUncounted)

-----------------------------------------------------------------------------
(* One executed decision on wider grids: herbivore 1, predator 2 and a third *)
(* entity, grass or a second herbivore, in any cells; _execute_decision is   *)
(* called on the herbivore with every movement and on the predator with      *)
(* every hunting choice.                                                     *)

MoveDims == {<<5, 1>>, <<9, 1>>, <<5, 5>>}

\* the cells of the third entity: all of a single row, three of a square
ThirdCells(d) == IF d[2] = 1 THEN CellsOf(d) ELSE {<<0, 0>>, <<2, 2>>, <<4, 1>>}

\* the cells of herbivore 1: all of a single row, five of a square
HerbivoreCells(d) ==
    IF d[2] = 1 THEN CellsOf(d) ELSE {<<0, 0>>, <<2, 2>>, <<4, 1>>, <<0, 4>>, <<3, 0>>}

ThirdKinds == {"grass", "herbivore"}

MkThird(kind, pos) ==
    IF kind = "grass" THEN MkGrass(pos) ELSE MkHerbivore(<<1000, 0, 0>>, pos)

InitMove ==
    \E d \in MoveDims :
        \E hc \in HerbivoreCells(d), pc \in CellsOf(d), tc \in ThirdCells(d), k \in ThirdKinds :
            InitWorld(<< MkHerbivore(<<1000, 0, 0>>, hc), MkPredator(<<1500, 0, 0>>, pc),
                         MkThird(k, tc) >>, d)

Movements == {"sprint", "flee", "seek_food", "seek_partner", "wander"}

Huntings == {"chase", "stalk", "conserve"}

\* herbivore 1's _execute_decision(decision)
ApiHerbivoreExecute ==
    /\ lastOp = "init"
    /\ \E m \in Movements, b \in BOOLEAN :
        /\ probe' = DecidedOn(1, <<>>, [movement |-> m, breed |-> b])
        /\ \E w \in Herbivore_execute_decision(StartStep(World, 1), 1,
                                                [movement |-> m, breed |-> b]) : SetWorld(w)
    /\ lastOp' = "api_execute"
    /\ UNCHANGED <<pending, snapshot, stepped, tick, phase>>

\* predator 2's _execute_decision(decision)
ApiPredatorExecute ==
    /\ lastOp = "init"
    /\ \E h \in Huntings, b \in BOOLEAN :
        /\ probe' = DecidedOn(2, <<>>, [hunting |-> h, breed |-> b])
        /\ \E w \in Predator_execute_decision(StartStep(World, 2), 2,
                                               [hunting |-> h, breed |-> b]) : SetWorld(w)
    /\ lastOp' = "api_execute"
    /\ UNCHANGED <<pending, snapshot, stepped, tick, phase>>

NextMove == ApiHerbivoreExecute \/ ApiPredatorExecute

SpecMove == InitMove /\ [][NextMove]_vars

-----------------------------------------------------------------------------
(* Steps cut off by an exception.  Herbivore.step and Predator.step run in   *)
(* "try: ... except Exception as e: print(...)": a statement that raises     *)
(* ends the step there, the step keeps what it had done and returns to the   *)
(* loop of PPModel.step.  A step may be cut off after its counters, after    *)
(* its energy loss, after its movement and after its meal.                   *)

\* the herbivore's step from the decision on, cut off after the movement or
\* after the meal
Herbivore_moved(x, a, decision) ==
    UNION {{w1, eat_grass(w1, a)}
           : w1 \in Herbivore_movement([x EXCEPT !.ev.decision = decision], a, decision)}

\* the herbivore's step once the counters are updated (w1), cut off
Herbivore_counted_cut(w1, a, w2) ==
    {w1} \cup {x \in {w2} : reduce_energy_alive(x, a)}
    \cup UNION {Herbivore_moved(x, a,
                    HerbivoreBrain_decide(Herbivore_gather_inputs(x, a, scan_for_predators(x, a, 3))))
                : x \in {x \in {w1} : in_lowest_level(x.agents[a].steps_without_food)}
                        \cup {x \in {w2} : reduce_energy_alive(x, a)}}

Herbivore_step_cut(w1, a) ==
    Herbivore_counted_cut(w1, a, reduce_energy(w1, a, HERBIVORE_HUNGER_LEVELS))

\* the predator's step once the energy loss is applied, cut off before the
\* inputs are gathered or after the hunting branch
Predator_step_cut(w2, a) ==
    IF reduce_energy_alive(w2, a)
    THEN {w2} \cup Predator_hunting([w2 EXCEPT !.ev.decision =
                                         PredatorBrain_decide(Predator_gather_inputs(w2, a))],
                                    a, PredatorBrain_decide(Predator_gather_inputs(w2, a)))
    ELSE {}

\* a loop that an exception of step() would leave
Propagated(p, i) == <<>>

\* the work list after the step that caught its exception: step() has
\* returned and "for agent in all_agents" goes on
Caught(p, i) == RemoveAt(p, i)

\* the probe names the agent whose step was cut off last and the agents
\* that were pending then
Fail(i, ws) ==
    /\ phase = "run"
    /\ ShouldStep(World, pending[i])
    /\ pending' = Caught(pending, i)
    /\ stepped' = Visited(stepped, pending[i], TRUE, agents[pending[i]].pos # NoPos)
    /\ \E w \in ws : SetWorld(w)
    /\ probe' = << [agent |-> pending[i], rest |-> RemoveAt(pending, i), tick |-> tick] >>
    /\ lastOp' = "fail"
    /\ UNCHANGED <<snapshot, tick, phase>>

FailHerbivore ==
    \E i \in DOMAIN pending :
        /\ agents[pending[i]].kind = "herbivore"
        /\ Fail(i, Herbivore_step_cut(
                      [StartStep(World, pending[i]) EXCEPT
                          !.agents[pending[i]].sprint_cooldown = IF @ > 0 THEN @ - 1 ELSE @,
                          !.agents[pending[i]].steps_without_food = @ + 1], pending[i]))

FailPredator ==
    \E i \in DOMAIN pending :
        /\ agents[pending[i]].kind = "predator"
        /\ Fail(i, Predator_step_cut(
                      reduce_energy([StartStep(World, pending[i]) EXCEPT
                          !.agents[pending[i]].breeding_cooldown = IF @ > 0 THEN @ - 1 ELSE @,
                          !.agents[pending[i]].steps_without_food = @ + 1],
                          pending[i], PREDATOR_HUNGER_LEVELS), pending[i]))

InitFault ==
    \E hc \in InitCells, gc \in InitCells :
        InitWorldOf(<< MkPredator(<<1500, 0, 0>>, <<1, 0>>), MkHerbivore(<<1000, 0, 0>>, hc),
                       MkGrass(gc) >>, <<Width, Height>>, 0)

NextFault ==
    \/ BeginTick \/ StepHerbivore \/ StepPredator \/ StepGrass \/ SkipRemoved \/ EndTick
    \/ FailHerbivore \/ FailPredator

SpecFault == InitFault /\ [][NextFault]_vars

-----------------------------------------------------------------------------
(* Two runs of one configuration with one seed.  PPModel passes the seed to  *)
(* mesa.Model, which seeds self.random; PPModel.step shuffles with           *)
(* self.random and grow_grass draws from self.random, so in two runs that    *)
(* have been through the same states both draw the same order and the same   *)
(* growth.  The agents draw from the module random (random.choice,           *)
(* random.random), which nothing seeds: each run has its own outcomes.  The  *)
(* variables hold the first run; the probe holds the agents and the grid of  *)
(* the second run once a step has been taken, and the runs are followed      *)
(* while both are in the same state.                                         *)

SecondRun(w) == << [agents |-> w.agents, grid |-> w.grid] >>

InSync == IF probe = <<>> THEN TRUE ELSE probe[1].agents = agents /\ probe[1].grid = grid

\* the step of the same agent in both runs: ws are the worlds the step can
\* leave, one drawn by each run
TwinVisit(i, ws) ==
    /\ phase = "run"
    /\ InSync
    /\ ShouldStep(World, pending[i])
    /\ pending' = RemoveAt(pending, i)
    /\ stepped' = Visited(stepped, pending[i], TRUE, agents[pending[i]].pos # NoPos)
    /\ \E w \in ws, t \in ws : SetWorld(w) /\ probe' = SecondRun(t)
    /\ lastOp' = "step"
    /\ UNCHANGED <<snapshot, tick, phase>>

TwinStepHerbivore ==
    \E i \in DOMAIN pending :
        /\ agents[pending[i]].kind = "herbivore"
        /\ TwinVisit(i, Herbivore_step(StartStep(World, pending[i]), pending[i], BOOLEAN))

TwinStepPredator ==
    \E i \in DOMAIN pending :
        /\ agents[pending[i]].kind = "predator"
        /\ TwinVisit(i, Predator_step(StartStep(World, pending[i]), pending[i]))

TwinStepGrass ==
    \E i \in DOMAIN pending :
        /\ agents[pending[i]].kind = "grass"
        /\ TwinVisit(i, Grass_step(StartStep(World, pending[i]), pending[i]))

\* the end of the tick in both runs: the same growth
TwinEndTick ==
    /\ phase = "run"
    /\ pending = <<>>
    /\ InSync
    /\ \E w \in grow_grass(World) : SetWorld(w) /\ probe' = SecondRun(w)
    /\ tick' = tick + 1
    /\ phase' = "idle"
    /\ lastOp' = "end"
    /\ UNCHANGED <<pending, snapshot, stepped>>

NextTwin ==
    \/ InSync /\ BeginTick
    \/ TwinStepHerbivore \/ TwinStepPredator \/ TwinStepGrass
    \/ InSync /\ SkipRemoved
    \/ TwinEndTick

SpecTwin == InitFault /\ [][NextTwin]_vars

-----------------------------------------------------------------------------
(* The construction of a world without animals, PPModel(initial_herbivores=0,*)
(* initial_predators=0, width=5, height=4), and its ticks: the constructor    *)
(* builds the empty grid and calls initialize_grass(width * height // 10).    *)

SowDim == <<5, 4>>

\* "initial_amount=width * height // 10"
initial_amount(d) == (d[1] * d[2]) \div 10

\* initialize_grass: each unit is placed on the cell drawn for it
RECURSIVE initialize_grass(_, _)
initialize_grass(ws, k) ==
    IF k = 0 THEN ws
    ELSE initialize_grass(UNION {{PlaceNew(w, NewGrass, c) : c \in CellsOf(w.dim)} : w \in ws},
                          k - 1)

InitSow == InitWorldOf(<<>>, SowDim, initial_amount(SowDim) + MaxNew)

\* PPModel.__init__ from the call of initialize_grass on
Construct ==
    /\ lastOp = "init"
    /\ \E w \in initialize_grass({World}, initial_amount(dim)) : SetWorld(w)
    /\ lastOp' = "constructed"
    /\ UNCHANGED <<pending, snapshot, stepped, tick, phase, probe>>

NextSow == Construct \/ (lastOp # "init" /\ (BeginTick \/ StepGrass \/ EndTick))

SpecSow == InitSow /\ [][NextSow]_vars

-----------------------------------------------------------------------------
\* Properties of the ticking world

Animals == {a \in DOMAIN agents : agents[a].kind # "grass"}

OnGrid(a) == agents[a].pos # NoPos

TickEnded == phase = "idle" /\ tick >= 1

LogHas(e) == \E i \in DOMAIN ev.log : ev.log[i] = e

\* C1 (as stated): an organism whose energy reaches zero or below during its
\* own step does nothing more in that step (no move, no meal, no offspring),
\* and is off the grid when the tick ends.
C1_ZeroedIsRemoved ==
    /\ \A i \in DOMAIN ev.log :
          ev.log[i] = "zero" =>
              \A j \in DOMAIN ev.log :
                  j > i => ev.log[j] \notin {"move", "eat", "hunt", "reproduce"}
    /\ phase = "idle" => \A a \in ev.zeroed : ~OnGrid(a)

\* C2: at the end of every tick, every animal on the grid has energy >= 0.
C2_EnergyNonNegative ==
    phase = "idle" => \A a \in Animals : OnGrid(a) => agents[a].energy >= 0

\* a tick has ended with an animal on the grid whose energy the sprint cost
\* has taken to exactly zero
C2_Witness ==
    /\ TickEnded
    /\ \E a \in Animals : OnGrid(a) /\ agents[a].energy = 0 /\ a \in ev.zeroed

\* C3: every animal's energy is at most its max_energy, in every state.
C3_EnergyAtMostMax ==
    \A a \in Animals : agents[a].energy <= agents[a].max_energy

\* an animal has just eaten and the cap has cut its energy to max_energy
C3_Witness ==
    /\ lastOp = "step"
    /\ LogHas("eat") \/ LogHas("hunt")
    /\ agents[ev.actor].energy = agents[ev.actor].max_energy

\* C4: a reproduction leaves parent and offspring together with no more
\* energy than the parent had, and the offspring within its max_energy.
C4_ReproductionConservesEnergy ==
    ev.repro.parent # 0 =>
        /\ ev.repro.after + ev.repro.offspring_energy <= ev.repro.before
        /\ ev.repro.offspring_energy <= ev.repro.offspring_max

\* a parent with energy has reproduced and its offspring stands on the grid
C4_Witness ==
    /\ ev.repro.parent # 0
    /\ ev.repro.before > 0
    /\ ev.repro.offspring_energy > 0
    /\ ev.repro.placed

\* C7: in a tick, every agent of the work list taken at the start is visited
\* once, and stepped exactly when it is on the grid at its turn; an agent
\* created during the tick is not stepped in it.
C7_SteppedAtMostOnce ==
    (phase = "run" /\ pending = <<>>) \/ TickEnded =>
        \A a \in DOMAIN agents :
            LET v == IF a \in DOMAIN stepped THEN stepped[a] ELSE NoVisit
            IN  /\ v.steps_off = 0
                /\ v.skips_on = 0
                /\ a \in SeqToSet(snapshot) => v.steps + v.skips = 1
                /\ a \notin SeqToSet(snapshot) => v.steps = 0 /\ v.skips = 0

\* a tick has ended in which an agent was removed before its turn and passed
\* over, and an agent was created that the work list did not hold
C7_Witness ==
    /\ TickEnded
    /\ \E a \in DOMAIN stepped : stepped[a].skips = 1 /\ ~OnGrid(a)
    /\ \E b \in Animals : b \notin SeqToSet(snapshot) /\ OnGrid(b)
    /\ \E c \in DOMAIN stepped : stepped[c].steps = 1

\* how often agent a occurs in the content list of cell c
Occurrences(a, c) == Cardinality({i \in DOMAIN grid[c] : grid[c][i] = a})

\* C8: every entity is in at most one cell's content list, at most once, and
\* it is in the list of cell c exactly when its recorded position is c.
C8_OneCellPerEntity ==
    \A a \in DOMAIN agents :
        \A c \in DOMAIN grid :
            Occurrences(a, c) = (IF agents[a].pos = c THEN 1 ELSE 0)

\* a predator has moved and eaten in one step: the grid holds it at its new
\* cell and holds its prey nowhere
C8_Witness ==
    /\ lastOp = "step"
    /\ LogHas("move") /\ LogHas("hunt")
    /\ \E a \in Animals : ~OnGrid(a)


-----------------------------------------------------------------------------
\* Properties of the direct calls

\* C5 (as stated): a reproduction attempted while every adjacent cell of the
\* parent holds an animal of its species creates no offspring and leaves the
\* parent's energy as it was.
C5_CrowdedReproductionIsAtomic ==
    (ev.repro.parent # 0 /\ ev.repro.free = {}) =>
        /\ ~ev.repro.placed
        /\ ev.repro.after = ev.repro.before

\* C6 (as stated): step() called on an animal that is off the grid changes
\* nothing: not its own record, not any other agent, not the grid.
C6_DeadStepIsNoOp ==
    (lastOp = "api_step" /\ ~probe.on_grid) =>
        /\ agents[probe.agent] = probe.before
        /\ agents = probe.agents_before
        /\ grid = probe.grid_before

-----------------------------------------------------------------------------
\* Properties of the herbivore's decision

Decided == lastOp = "decide"

\* C9 (as stated): with energy 1.0, food_proximity 6 and predator_proximity 6
\* the herbivore's decision is movement = seek_partner and breed = true.
C9_ScenarioA ==
    (/\ Decided
     /\ probe.inputs.energy.n = probe.inputs.energy.d
     /\ probe.inputs.food_proximity = Frac(6, 1)
     /\ probe.inputs.predator_proximity = Frac(6, 1)) =>
        probe.decision = [movement |-> "seek_partner", breed |-> TRUE]

\* C10: with predator_proximity 0 the decision is movement = sprint for every
\* energy and food_proximity, and its execution runs the sprint when
\* sprint_cooldown is 0 and the evasion of a flee otherwise.
C10_ScenarioB ==
    (Decided /\ probe.inputs.predator_proximity = Frac(0, 1)) =>
        /\ probe.decision.movement = "sprint"
        /\ ev.log # <<>>
        /\ ev.log[1] = (IF probe.cooldown = 0 THEN "sprint" ELSE "flee")
        /\ agents[1].sprint_cooldown =
              (IF probe.cooldown = 0 THEN SPRINT_COOLDOWN ELSE probe.cooldown)

\* a herbivore with a predator at distance 0 and no cooldown has sprinted
C10_Witness ==
    /\ Decided
    /\ probe.inputs.predator_proximity = Frac(0, 1)
    /\ probe.cooldown = 0
    /\ ev.log[1] = "sprint"
    /\ agents[1].pos # <<0, 0>>

-----------------------------------------------------------------------------
\* Properties of the predator's decision and of its hunt

\* C11 (as stated): with energy 0.2 and prey_proximity 0 the predator's
\* decision is hunting = chase, for every prey_count.
C11_ScenarioC ==
    (/\ lastOp = "decide_predator"
     /\ 5 * probe.inputs.energy.n = probe.inputs.energy.d
     /\ probe.inputs.prey_proximity = Frac(0, 1)) =>
        probe.decision.hunting = "chase"

\* the herbivores of a cell of the world before the call, in order
PreyBefore(cell) ==
    SelectSeq(probe.grid_before[cell], LAMBDA b : probe.agents_before[b].kind = "herbivore")

\* C12: a hunt in a cell with k >= 1 herbivores takes exactly one of them off
\* the grid, sets the predator's energy to min(energy + prey value,
\* max_energy) and its hunger counter to 0, and changes nothing else; in a
\* cell with no herbivore, or off the grid, it changes nothing.
C12_HuntEatsOne ==
    lastOp = "api_hunt" =>
        IF ~probe.on_grid \/ PreyBefore(probe.before.pos) = <<>>
        THEN agents = probe.agents_before /\ grid = probe.grid_before
        ELSE \E victim \in SeqToSet(PreyBefore(probe.before.pos)) :
                /\ agents[victim] = [probe.agents_before[victim] EXCEPT !.pos = NoPos]
                /\ grid = [probe.grid_before EXCEPT
                               ![probe.before.pos] = RemoveFirst(@, victim)]
                /\ Len(SelectSeq(grid[probe.before.pos],
                                 LAMBDA b : agents[b].kind = "herbivore"))
                      = Len(PreyBefore(probe.before.pos)) - 1
                /\ agents[probe.agent] =
                      [probe.before EXCEPT
                          !.energy = Min2(@ + PREDATOR_PREY_ENERGY_VALUE * EnergyScale,
                                          probe.before.max_energy),
                          !.steps_without_food = 0]
                /\ \A b \in DOMAIN agents :
                      b \notin {victim, probe.agent} => agents[b] = probe.agents_before[b]

\* a predator near its max_energy has hunted in a cell with two herbivores:
\* one is left, and the cap has cut the predator's energy
C12_Witness ==
    /\ lastOp = "api_hunt"
    /\ probe.on_grid
    /\ Len(PreyBefore(probe.before.pos)) = 2
    /\ probe.before.energy + PREDATOR_PREY_ENERGY_VALUE * EnergyScale > probe.before.max_energy
    /\ agents[probe.agent].energy = probe.before.max_energy
    /\ LogHas("hunt")

-----------------------------------------------------------------------------
\* Properties of the grid's neighbourhoods

\* the eight cells one step away from pos in every direction, wrapped
Ring(pos) ==
    {<< (pos[1] + dx) % dim[1], (pos[2] + dy) % dim[2] >> :
        dx \in -1..1, dy \in -1..1} \ {pos}

\* the neighbours returned are 8 distinct cells of the grid: those one step
\* away with coordinates wrapped modulo width and height
EightNeighbors ==
    /\ Len(probe.cells) = 8
    /\ Cardinality(SeqToSet(probe.cells)) = 8
    /\ SeqToSet(probe.cells) \subseteq CellsOf(dim)
    /\ SeqToSet(probe.cells) = Ring(agents[probe.agent].pos)
    /\ (dim = <<10, 10>> /\ agents[probe.agent].pos = <<0, 0>>) =>
            {<<9, 9>>, <<9, 0>>, <<0, 9>>} \subseteq SeqToSet(probe.cells)

Queried ==
    /\ lastOp = "api_get_neighbors"
    /\ agents[probe.agent].pos # NoPos
    /\ ~probe.include_center

\* C13 (as stated): the radius-1 neighbourhood of any cell of the toroidal
\* grid has exactly 8 distinct in-range cells, wrapped and not truncated.
C13_EightNeighborsAnyGrid == Queried => EightNeighbors

\* C13: on a grid whose width and height are both at least 3, the radius-1
\* neighbourhood of any cell has exactly 8 distinct in-range cells with
\* coordinates wrapped modulo width and height; on a 10x10 grid the
\* neighbours of (0,0) include (9,9), (9,0) and (0,9).
C13_EightNeighbors == (Queried /\ dim[1] >= 3 /\ dim[2] >= 3) => EightNeighbors

\* the neighbours of (0,0) on the 10x10 grid have been queried
C13_Witness ==
    /\ Queried
    /\ dim = <<10, 10>>
    /\ agents[probe.agent].pos = <<0, 0>>
    /\ <<9, 9>> \in SeqToSet(probe.cells)
    /\ Len(probe.cells) = 8

-----------------------------------------------------------------------------
\* Properties of the fuzzy engine

\* an antecedent of the rule names a variable or a set the input lacks
Absent(rule, fuzzified_inputs) ==
    \E i \in DOMAIN rule.antecedents :
        \/ rule.antecedents[i][1] \notin DOMAIN fuzzified_inputs
        \/ rule.antecedents[i][2] \notin DOMAIN fuzzified_inputs[rule.antecedents[i][1]]

\* the membership degrees of the rule's antecedents
Degrees(rule, fuzzified_inputs) ==
    {fuzzified_inputs[rule.antecedents[i][1]][rule.antecedents[i][2]] :
        i \in DOMAIN rule.antecedents}

Least(S) == CHOOSE m \in S : \A d \in S : m <= d
Greatest(S) == CHOOSE m \in S : \A d \in S : m >= d

\* C14: the firing strength of a rule is its weight times the least
\* membership degree of its antecedents, and 0 when an antecedent's variable
\* or set is absent from the fuzzified input.
C14_FiringStrength ==
    lastOp = "api_evaluate" =>
        probe.strength =
            IF Absent(probe.rule, probe.fuzzified_inputs) THEN 0
            ELSE probe.rule.weight * Least(Degrees(probe.rule, probe.fuzzified_inputs))

\* a rule of several antecedents has fired, and its first antecedent is not
\* the weakest
C14_Witness ==
    /\ lastOp = "api_evaluate"
    /\ ~Absent(probe.rule, probe.fuzzified_inputs)
    /\ Len(probe.rule.antecedents) >= 2
    /\ probe.strength > 0
    /\ MinDegree_first(probe.rule.antecedents, probe.fuzzified_inputs)
          > Least(Degrees(probe.rule, probe.fuzzified_inputs))

\* the consequents of the rules of the brain that decided
Consequents == {probe.brain_before.rules[i].consequent : i \in DOMAIN probe.brain_before.rules}

\* the firing strengths of the rules with the consequent
FiringOf(key) ==
    {probe.firing[i] : i \in {j \in DOMAIN probe.firing :
                                  probe.brain_before.rules[j].consequent = key}}

\* C15: the aggregated strength infer gives an (output variable, category)
\* pair is the greatest firing strength among the rules with that
\* consequent, and 0 when none of them fires.
C15_AggregationIsMax ==
    lastOp = "api_decide" =>
        /\ \A key \in Consequents :
              Strength(probe.output_strengths, key) = Greatest(FiringOf(key) \cup {0})
        /\ \A i \in DOMAIN probe.output_strengths :
              /\ probe.output_strengths[i].key \in Consequents
              /\ \A j \in DOMAIN probe.output_strengths :
                    probe.output_strengths[j].key = probe.output_strengths[i].key => j = i

\* two rules with the same consequent have fired, the later one more weakly
C15_Witness ==
    /\ lastOp = "api_decide"
    /\ \E i, j \in DOMAIN probe.firing :
          /\ i < j
          /\ probe.brain_before.rules[i].consequent = probe.brain_before.rules[j].consequent
          /\ probe.firing[i] > probe.firing[j]
          /\ probe.firing[j] > 0
          /\ Strength(probe.output_strengths, probe.brain_before.rules[i].consequent)
                = probe.firing[i]

\* the movement categories from the first to the last in priority
MovementPriority == <<"sprint", "flee", "seek_food", "seek_partner", "wander">>

\* the strength output_strengths holds for a movement category
MovementStrength(category) == Strength(probe.output_strengths, <<"movement", category>>)

\* the movement categories of the greatest strength
Strongest ==
    {c \in SeqToSet(MovementPriority) :
        \A d \in SeqToSet(MovementPriority) : MovementStrength(c) >= MovementStrength(d)}

\* C16 (as stated): the herbivore's movement is the category of the greatest
\* aggregated strength, and among several of the greatest strength the first
\* in the priority sprint > flee > seek_food > seek_partner > wander.
C16_PriorityBreaksTies ==
    (/\ lastOp \in {"api_get_actions", "api_decide"}
     /\ probe.species = "herbivore"
     /\ \E c \in SeqToSet(MovementPriority) : MovementStrength(c) > 0) =>
        probe.decision.movement =
            MovementPriority[CHOOSE i \in DOMAIN MovementPriority :
                                /\ MovementPriority[i] \in Strongest
                                /\ \A j \in 1..(i - 1) : MovementPriority[j] \notin Strongest]

\* the species' breed thresholds as strengths
BreedThreshold ==
    [herbivore |-> HERBIVORE_BREED_THRESHOLD * HerbivoreBrain.mu_unit,
     predator |-> PREDATOR_BREED_THRESHOLD * PredatorBrain.mu_unit]

BreedYes == Strength(probe.output_strengths, <<"reproduction", "yes">>)
BreedNo == Strength(probe.output_strengths, <<"reproduction", "no">>)

\* C17: breed is true exactly when the aggregated strength of reproduction
\* "yes" is greater than that of "no" and greater than the species'
\* threshold; at or below the threshold it is false even if "yes" exceeds
\* "no".
C17_BreedThreshold ==
    lastOp \in {"api_get_actions", "api_decide"} =>
        probe.decision.breed = (BreedYes > BreedNo /\ BreedYes > BreedThreshold[probe.species])

\* a herbivore's decision where "yes" has fired above "no" and sits exactly
\* at the threshold: breed is false
C17_Witness ==
    /\ lastOp = "api_decide"
    /\ probe.species = "herbivore"
    /\ BreedYes > BreedNo
    /\ BreedYes = BreedThreshold["herbivore"]
    /\ ~probe.decision.breed

\* C18 (as stated): every membership function of every input variable of
\* both brains returns a degree in [0, 1] for every input.
C18_DegreesInUnitInterval ==
    lastOp = "api_fuzzify" =>
        \A set \in DOMAIN probe.degrees :
            /\ probe.degrees[set] >= 0
            /\ probe.degrees[set] <= Brains[probe.species].mu_unit

NamesMissing(rule) ==
    \E i \in DOMAIN rule.antecedents : rule.antecedents[i][1] \notin DOMAIN probe.inputs

\* no rule whose consequent is about the output variable has fired
NoneFires(output_var) ==
    \A i \in DOMAIN probe.firing :
        probe.brain_before.rules[i].consequent[1] = output_var => probe.firing[i] = 0

\* C20: decide on a snapshot that lacks a variable the rules refer to
\* returns: the rules naming the variable contribute 0; when no rule of
\* the species' action variable fires the action is the default (wander
\* for herbivores, conserve for predators), and when no rule of
\* reproduction fires breed is false.
C20_MissingVariableDefaults ==
    lastOp = "api_decide" =>
        /\ \A i \in DOMAIN probe.firing :
              NamesMissing(probe.brain_before.rules[i]) => probe.firing[i] = 0
        /\ probe.species = "herbivore" =>
              /\ DOMAIN probe.decision = {"movement", "breed"}
              /\ NoneFires("movement") => probe.decision.movement = "wander"
        /\ probe.species = "predator" =>
              /\ DOMAIN probe.decision = {"hunting", "breed"}
              /\ NoneFires("hunting") => probe.decision.hunting = "conserve"
        /\ NoneFires("reproduction") => probe.decision.breed = FALSE

\* a predator's brain has decided on a snapshot without prey_proximity and
\* prey_count: its hunting rules all name one of them, none has fired, and
\* the decision is conserve, while a rule of reproduction has fired
C20_Witness ==
    /\ lastOp = "api_decide"
    /\ probe.species = "predator"
    /\ DOMAIN probe.inputs = {"energy"}
    /\ \E i \in DOMAIN probe.firing : NamesMissing(probe.brain_before.rules[i])
    /\ NoneFires("hunting")
    /\ ~NoneFires("reproduction")
    /\ probe.decision.hunting = "conserve"

-----------------------------------------------------------------------------
\* Properties of perception

\* the agents of the kind that share the cell of agent a
Colocated(a, kind) ==
    {b \in DOMAIN agents : b # a /\ agents[b].kind = kind /\ agents[b].pos = agents[a].pos}

\* C21 (as stated): a herbivore that shares its cell with a predator
\* perceives predator_proximity 0, and a predator that shares its cell with
\* a herbivore perceives prey_proximity 0.
C21_ColocatedIsZero ==
    lastOp = "api_inputs" =>
        /\ (agents[probe.agent].kind = "herbivore" /\ Colocated(probe.agent, "predator") # {})
              => probe.inputs.predator_proximity = Frac(0, 1)
        /\ (agents[probe.agent].kind = "predator" /\ Colocated(probe.agent, "herbivore") # {})
              => probe.inputs.prey_proximity = Frac(0, 1)

\* the distance between two coordinates along a side of length n that wraps
WrapDist(x, y, n) == Min2(Abs(x - y), n - Abs(x - y))

\* the agents of the kind within the radius of agent a on the torus
WithinRadius(a, kind, radius) ==
    {b \in DOMAIN agents :
        /\ b # a
        /\ agents[b].kind = kind
        /\ agents[b].pos # NoPos
        /\ WrapDist(agents[a].pos[1], agents[b].pos[1], dim[1]) <= radius
        /\ WrapDist(agents[a].pos[2], agents[b].pos[2], dim[2]) <= radius}

\* the Manhattan distance from agent a to agent b on the torus
TorusDistance(a, b) ==
    WrapDist(agents[a].pos[1], agents[b].pos[1], dim[1])
        + WrapDist(agents[a].pos[2], agents[b].pos[2], dim[2])

\* the proximity is 6 only when nothing of the kind is within the radius,
\* and else the least Manhattan distance on the torus
ProximityIsNearest(proximity, a, kind, radius) ==
    /\ proximity = Frac(6, 1) => WithinRadius(a, kind, radius) = {}
    /\ WithinRadius(a, kind, radius) # {} =>
          \E b \in WithinRadius(a, kind, radius) :
              /\ proximity = Frac(TorusDistance(a, b), 1)
              /\ \A c \in WithinRadius(a, kind, radius) :
                    TorusDistance(a, b) <= TorusDistance(a, c)

\* C22 (as stated): a perceived proximity is 6 only when no entity of the
\* role lies within the scan radius on the toroidal grid, and else the
\* minimum Manhattan distance to such an entity, also across the edge.
C22_ProximityIsNearest ==
    lastOp = "api_inputs" =>
        IF agents[probe.agent].kind = "herbivore"
        THEN /\ ProximityIsNearest(probe.inputs.food_proximity, probe.agent, "grass", 3)
             /\ ProximityIsNearest(probe.inputs.predator_proximity, probe.agent, "predator", 3)
        ELSE ProximityIsNearest(probe.inputs.prey_proximity, probe.agent, "herbivore", 4)

-----------------------------------------------------------------------------
\* Properties of the predator's and the herbivore's step

\* the herbivores of a cell in the world as it is
PreyNow(cell) == SelectSeq(grid[cell], LAMBDA b : agents[b].kind = "herbivore")

\* C23 (as stated): a predator that chases from a cell without prey moves
\* and then tries to eat again: if the cell it arrives in held a herbivore,
\* it eats one herbivore in the same step.
C23_ChaseEatsOnArrival ==
    (/\ lastOp = "decide_predator"
     /\ probe.decision.hunting = "chase"
     /\ probe.on_grid
     /\ PreyBefore(probe.before.pos) = <<>>
     /\ agents[probe.agent].pos # probe.before.pos
     /\ PreyBefore(agents[probe.agent].pos) # <<>>) =>
        /\ LogHas("hunt")
        /\ Len(PreyNow(agents[probe.agent].pos)) = Len(PreyBefore(agents[probe.agent].pos)) - 1

\* the last step was made by an animal of the kind
LifeStepOf(kind) == lastOp = "life_step" /\ probe.before.kind = kind

\* the hunger counter the step works with: the one before it, incremented
CounterInStep == probe.before.steps_without_food + 1

\* C24 (as stated): a herbivore whose hunger counter after the increment
\* is in the lowest tier (above 0, not above 10) loses energy to hunger
\* only with probability HERBIVORE_ENERGY_LOSS_CHANCE: in a step where the
\* roll is at or above the chance, no hunger loss is applied.
C24_LowestTierLossIsRolled ==
    (/\ LifeStepOf("herbivore")
     /\ probe.roll
     /\ CounterInStep > HERBIVORE_HUNGER_LEVELS[3][1]
     /\ CounterInStep <= HERBIVORE_HUNGER_LEVELS[2][1]) =>
        ~LogHas("hunger")

HungerLevels == [herbivore |-> HERBIVORE_HUNGER_LEVELS, predator |-> PREDATOR_HUNGER_LEVELS]

\* the levels whose threshold the counter strictly exceeds
Exceeded(levels, counter) == {i \in DOMAIN levels : counter > levels[i][1]}

\* the loss of the level with the highest threshold the counter exceeds
TierLoss(levels, counter) ==
    IF Exceeded(levels, counter) = {} THEN 0
    ELSE levels[CHOOSE i \in Exceeded(levels, counter) :
                    \A j \in Exceeded(levels, counter) : levels[i][1] >= levels[j][1]][2]
         * (EnergyScale \div 10)

LogCount(e) == Len(SelectSeq(ev.log, LAMBDA x : x = e))

\* the energy of the stepped animal before it reproduced, if it did, and
\* else at the end of its step
EnergyBeforeBirth ==
    IF LogHas("reproduce") THEN ev.repro.before ELSE agents[probe.agent].energy

\* the energy e after the sprint and the meal the step's log tells of
AfterSprintAndMeal(e) ==
    LET sprinted == IF LogHas("sprint")
                    THEN Max2(0, e - (SPRINT_COST_PCT * probe.before.max_energy) \div 100)
                    ELSE e
    IN  IF LogHas("eat")
        THEN Min2(sprinted + GRASS_ENERGY_VALUE * EnergyScale, probe.before.max_energy)
        ELSE IF LogHas("hunt")
        THEN Min2(sprinted + PREDATOR_PREY_ENERGY_VALUE * EnergyScale, probe.before.max_energy)
        ELSE sprinted

\* C25: a step that applies hunger loss subtracts the loss of exactly one
\* tier, that of the highest threshold the incremented hunger counter
\* strictly exceeds; a predator's step applies it every time.
C25_OneTierLoss ==
    lastOp = "life_step" =>
        /\ LogCount("hunger") <= 1
        /\ LogHas("hunger") =>
              EnergyBeforeBirth =
                  AfterSprintAndMeal(probe.before.energy
                                       - TierLoss(HungerLevels[probe.before.kind], CounterInStep))
        /\ probe.before.kind = "predator" => LogCount("hunger") = 1

\* a predator whose counter exceeds all three thresholds has stepped, lost
\* the top tier's 0.8 and lived
C25_Witness ==
    /\ LifeStepOf("predator")
    /\ Exceeded(PREDATOR_HUNGER_LEVELS, CounterInStep) = {1, 2, 3}
    /\ LogHas("hunger")
    /\ ~LogHas("hunt")
    /\ ~LogHas("reproduce")
    /\ agents[probe.agent].energy = probe.before.energy - 8 * (EnergyScale \div 10)
    /\ agents[probe.agent].pos # NoPos

\* the stepped animal is on the grid at the end of its step
Survived == lastOp = "life_step" /\ agents[probe.agent].pos # NoPos

\* C26: after a completed step of a living animal its hunger counter is 0 if
\* it ate grass or prey in the step and one more than before the step if not.
C26_HungerCounter ==
    Survived =>
        agents[probe.agent].steps_without_food =
            IF LogHas("eat") \/ LogHas("hunt") THEN 0 ELSE CounterInStep

\* a herbivore that had gone hungry for some steps has eaten grass
C26_Witness ==
    /\ Survived
    /\ LifeStepOf("herbivore")
    /\ probe.before.steps_without_food >= 3
    /\ LogHas("eat")
    /\ agents[probe.agent].steps_without_food = 0

\* herbivore 1 has survived its hunger and executed a decision
HerbivoreActed == LifeStepOf("herbivore") /\ ev.decision # <<>>

\* sprint_cooldown when the herbivore decides, after the step's decrement
CooldownAtDecision == Max2(0, probe.before.sprint_cooldown - 1)

HerbivoreAfterHunger ==
    probe.before.energy - TierLoss(HERBIVORE_HUNGER_LEVELS, CounterInStep)

AfterMeal(e) ==
    IF LogHas("eat")
    THEN Min2(e + GRASS_ENERGY_VALUE * EnergyScale, probe.before.max_energy)
    ELSE e

SprintCost == (SPRINT_COST_PCT * probe.before.max_energy) \div 100

SprintAllowed == ev.decision.movement = "sprint" /\ CooldownAtDecision = 0

\* C27: a herbivore pays the sprint cost and sets sprint_cooldown to 5 only
\* in a step where the decision is sprint and sprint_cooldown is 0; with the
\* decision sprint and the cooldown above 0 it flees, pays no sprint cost and
\* its cooldown is not reset, so two sprints of one herbivore are at least 5
\* of its steps apart.
C27_SprintOnlyOffCooldown ==
    HerbivoreActed =>
        IF SprintAllowed
        THEN /\ agents[1].sprint_cooldown = SPRINT_COOLDOWN
             /\ EnergyBeforeBirth = AfterMeal(Max2(0, HerbivoreAfterHunger - SprintCost))
             /\ probe.since_sprint_before + 1 >= SPRINT_COOLDOWN
        ELSE /\ agents[1].sprint_cooldown = CooldownAtDecision
             /\ EnergyBeforeBirth = AfterMeal(HerbivoreAfterHunger)
             /\ ~LogHas("sprint")
             /\ ev.decision.movement = "sprint" => LogHas("flee")

\* the fifth step after a sprint: the cooldown of 1 runs out in the step and
\* the herbivore sprints again
C27_Witness ==
    /\ HerbivoreActed
    /\ SprintAllowed
    /\ probe.since_sprint_before = SPRINT_COOLDOWN - 1
    /\ LogHas("sprint")
    /\ agents[1].sprint_cooldown = SPRINT_COOLDOWN
    /\ agents[1].energy < probe.before.energy

\* the grass units that a grid holds in a cell
GrassIn(g, as, cell) == Len(SelectSeq(g[cell], LAMBDA b : as[b].kind = "grass"))

\* the grass units on the grid
GrassOnGrid(as) == Cardinality({k \in DOMAIN as : as[k].kind = "grass" /\ as[k].pos # NoPos})

\* the herbivore's energy when it comes to eat
BeforeMeal ==
    IF SprintAllowed THEN Max2(0, HerbivoreAfterHunger - SprintCost) ELSE HerbivoreAfterHunger

\* the grass that the herbivore's final cell held before the step
GrassFound == GrassIn(probe.grid_before, probe.agents_before, agents[1].pos)

BreedingCooldownInStep == Max2(0, probe.before.breeding_cooldown - 1)

\* C29: a predator reproduces only in a step where its breeding_cooldown is
\* 0; reproducing sets the cooldown to PREDATOR_BREEDING_COOLDOWN and every
\* step lowers it by one, so the predator does not reproduce again in the 39
\* steps that follow a reproduction.
C29_BreedingCooldown ==
    LifeStepOf("predator") =>
        IF LogHas("reproduce")
        THEN /\ BreedingCooldownInStep = 0
             /\ agents[2].breeding_cooldown = PREDATOR_BREEDING_COOLDOWN
             /\ probe.since_repro_before + 1 >= PREDATOR_BREEDING_COOLDOWN
        ELSE agents[2].breeding_cooldown = BreedingCooldownInStep

\* the fortieth step after a reproduction: the cooldown of 1 runs out in the
\* step and the predator reproduces again
C29_Witness ==
    /\ LifeStepOf("predator")
    /\ LogHas("reproduce")
    /\ probe.since_repro_before = PREDATOR_BREEDING_COOLDOWN - 1
    /\ probe.before.breeding_cooldown = 1
    /\ agents[2].breeding_cooldown = PREDATOR_BREEDING_COOLDOWN

\* the stepped animal's energy when it decided, after the hunger loss
EnergyAtDecision ==
    probe.before.energy - TierLoss(HungerLevels[probe.before.kind], CounterInStep)

\* HERBIVORE_BREEDING_ENERGY_THRESHOLD and PREDATOR_BREEDING_ENERGY_THRESHOLD
BreedingEnergyThreshold ==
    [herbivore |-> HERBIVORE_BREEDING_ENERGY_THRESHOLD,
     predator |-> PREDATOR_BREEDING_ENERGY_THRESHOLD]

\* C30: an animal reproduces in a step only if its energy when it decided
\* was at least its species' breeding energy threshold, 0.9 of max_energy.
C30_BreedsAboveThreshold ==
    (lastOp = "life_step" /\ LogHas("reproduce")) =>
        10 * EnergyAtDecision >= BreedingEnergyThreshold[probe.before.kind] * probe.before.max_energy

-----------------------------------------------------------------------------
\* Properties of one executed decision

Executed(a) == lastOp = "api_execute" /\ probe.agent = a

\* the Manhattan and the Chebyshev distance of two cells on the torus
TorusManhattan(p, q) == WrapDist(p[1], q[1], dim[1]) + WrapDist(p[2], q[2], dim[2])
TorusChebyshev(p, q) == Max2(WrapDist(p[1], q[1], dim[1]), WrapDist(p[2], q[2], dim[2]))

\* the agents of the kind that were within the radius of cell p on the
\* torus before the decision was executed, the executing agent apart
SeenFrom(p, kind, radius) ==
    {b \in DOMAIN probe.agents_before :
        /\ b # probe.agent
        /\ probe.agents_before[b].kind = kind
        /\ probe.agents_before[b].pos # NoPos
        /\ TorusChebyshev(p, probe.agents_before[b].pos) <= radius}

\* those of them that are nearest to p
NearestSeen(p, kind, radius) ==
    {b \in SeenFrom(p, kind, radius) :
        \A c \in SeenFrom(p, kind, radius) :
            TorusManhattan(p, probe.agents_before[b].pos)
                <= TorusManhattan(p, probe.agents_before[c].pos)}

\* the predator chases with no prey in its cell and prey within radius 3
ChasesDetectedPrey ==
    /\ Executed(2)
    /\ probe.decision.hunting = "chase"
    /\ SeenFrom(probe.before.pos, "herbivore", 0) = {}
    /\ SeenFrom(probe.before.pos, "herbivore", 3) # {}

\* C31 (as stated): a chasing predator with no prey in its cell and prey
\* within radius 3 moves exactly one cell, to an immediate neighbour whose
\* Manhattan distance on the torus to the nearest detected prey cell is
\* strictly smaller than before the move, the wrap-around edge included.
C31_ChaseComesCloser ==
    ChasesDetectedPrey =>
        /\ TorusChebyshev(probe.before.pos, agents[2].pos) = 1
        /\ \E b \in NearestSeen(probe.before.pos, "herbivore", 3) :
              TorusManhattan(agents[2].pos, probe.agents_before[b].pos)
                  < TorusManhattan(probe.before.pos, probe.agents_before[b].pos)

\* how far the executing animal has come from where it started
Travelled == TorusChebyshev(probe.before.pos, agents[probe.agent].pos)

\* C33 (as stated): in one step a herbivore that executes wander, seek_food,
\* seek_partner or flee ends at most one cell (Chebyshev distance on the
\* torus) from where it started, a sprinting herbivore at most two cells,
\* and a predator at most one cell whatever its hunting choice.
C33_StepLength ==
    /\ Executed(1) => Travelled <= IF probe.decision.movement = "sprint" THEN 2 ELSE 1
    /\ Executed(2) => Travelled <= 1

\* the agents of the kind within the radius of where the executing animal
\* started, its own cell apart
InRange(kind, radius) ==
    SeenFrom(probe.before.pos, kind, radius) \ SeenFrom(probe.before.pos, kind, 0)

\* the herbivore's movement finds no candidate
HerbivoreFindsNone ==
    /\ Executed(1)
    /\ \/ probe.decision.movement \in {"flee", "sprint"} /\ InRange("predator", 3) = {}
       \/ probe.decision.movement = "seek_food" /\ InRange("grass", 1) = {}
       \/ probe.decision.movement = "seek_partner" /\ SeenFrom(probe.before.pos, "herbivore", 3) = {}

\* the predator's hunting finds no prey
PredatorFindsNone ==
    /\ Executed(2)
    /\ \/ probe.decision.hunting = "chase" /\ SeenFrom(probe.before.pos, "herbivore", 3) = {}
       \/ probe.decision.hunting = "stalk" /\ SeenFrom(probe.before.pos, "herbivore", 2) = {}

\* C35: when the chosen movement finds no candidate (flee or sprint with no
\* predator detected, seek_food with no grass in the immediate
\* neighbourhood, seek_partner with no other herbivore in range, chase or
\* stalk with no prey in range) the animal makes a random move to an
\* adjacent cell and the step goes on: the herbivore eats the grass of the
\* cell it comes to, and the breeding trial is held.
C35_FallsBackToRandomMove ==
    /\ HerbivoreFindsNone =>
          /\ Travelled = 1
          /\ LogHas("move")
          /\ LogHas("eat") <=> GrassFound > 0
          /\ LogHas("reproduce") => probe.decision.breed
    /\ PredatorFindsNone =>
          /\ Travelled = 1
          /\ LogHas("move")
          /\ LogHas("reproduce") => probe.decision.breed

\* a herbivore told to seek a partner where there is none has moved at
\* random onto the grass, eaten it and reproduced
C35_Witness ==
    /\ HerbivoreFindsNone
    /\ probe.decision.movement = "seek_partner"
    /\ Travelled = 1
    /\ LogHas("eat")
    /\ LogHas("reproduce")

-----------------------------------------------------------------------------
\* Properties of shared food

\* the entities of the kind that the step taken removes from the grid
GoneNow(kind) ==
    {k \in DOMAIN agents :
        agents[k].kind = kind /\ agents[k].pos # NoPos /\ agents'[k].pos = NoPos}

\* the step taken is a step() of an agent of the kind
StepOf(kind) == lastOp' = "step" /\ agents[ev'.actor].kind = kind

Logs(e) == e \in SeqToSet(ev'.log)

\* the energy the stepping animal has after the step taken, before the
\* reproduction if there is one
EnergyBeforeBirthNow ==
    IF Logs("reproduce") THEN ev'.repro.before ELSE agents'[ev'.actor].energy

\* the same energy as the hunger loss, the sprint and a meal of value make it
EnergyWithMeal(a, value) ==
    LET hungry == agents[a].energy
                      - TierLoss(HungerLevels[agents[a].kind], agents[a].steps_without_food + 1)
        sprinted == IF Logs("sprint")
                    THEN Max2(0, hungry - (SPRINT_COST_PCT * agents[a].max_energy) \div 100)
                    ELSE hungry
    IN  IF value = 0 THEN sprinted
        ELSE Min2(sprinted + value * EnergyScale, agents[a].max_energy)

\* the entities of the kind that the step taken consumes: one, in the cell
\* where the consumer ends, when the consumer takes a meal, and else none
Consumes(kind, meal) ==
    /\ Cardinality(GoneNow(kind) \ {ev'.actor}) = IF meal THEN 1 ELSE 0
    /\ \A k \in GoneNow(kind) \ {ev'.actor} : agents[k].pos = agents'[ev'.actor].pos

\* the energy value of the meal of the step taken
MealValue ==
    IF StepOf("herbivore") /\ Logs("eat") THEN GRASS_ENERGY_VALUE
    ELSE IF StepOf("predator") /\ Logs("hunt") THEN PREDATOR_PREY_ENERGY_VALUE
    ELSE 0

ConsumedOnce ==
    /\ \A k \in DOMAIN agents : agents[k].pos = NoPos => agents'[k].pos = NoPos
    /\ Consumes("grass", StepOf("herbivore") /\ Logs("eat"))
    /\ Consumes("herbivore", StepOf("predator") /\ Logs("hunt"))
    /\ lastOp' = "step" /\ agents[ev'.actor].kind # "grass" =>
          /\ EnergyBeforeBirthNow = EnergyWithMeal(ev'.actor, MealValue)
          /\ agents'[ev'.actor].steps_without_food =
                IF MealValue > 0 THEN 0 ELSE agents[ev'.actor].steps_without_food + 1

\* C32: every consumable entity is consumed at most once, also when several
\* consumers share its cell in a tick: an entity that has left the grid stays
\* off it, a consumer gains the energy of a meal exactly in a step that
\* removes one entity from the cell where it stands, and no other step
\* removes grass or another agent's prey.
C32_ConsumedAtMostOnce == [][ConsumedOnce]_vars

\* of two predators that shared a cell in the first tick one has eaten the
\* herbivore and the other has then stepped without a meal
C32_Witness ==
    /\ lastOp = "step"
    /\ tick = 0
    /\ agents[ev.actor].kind = "predator"
    /\ ~LogHas("hunt")
    /\ agents[ev.actor].steps_without_food = 1
    /\ \E h \in DOMAIN agents : agents[h].kind = "herbivore" /\ agents[h].pos = NoPos
    /\ \E o \in DOMAIN agents \ {ev.actor} :
          /\ agents[o].kind = "predator"
          /\ agents[o].steps_without_food = 0
          /\ stepped[o].steps = 1

-----------------------------------------------------------------------------
\* Properties of ticks without end

\* agent a has just taken a step in which it ate
Feeds(a) == lastOp = "step" /\ ev.actor = a /\ (LogHas("eat") \/ LogHas("hunt"))

\* the animals the world starts with
FirstAnimals == {1, 2}

\* model.step() has just been called, and has just returned
TickBegun == lastOp = "begin"
TickReturned == lastOp = "end"

\* only a meal raises an animal's energy, and a step of an animal on the
\* grid that holds no meal lowers its energy
HungerWears ==
    /\ \A k \in DOMAIN agents :
          agents'[k].energy > agents[k].energy =>
              /\ lastOp' = "step"
              /\ ev'.actor = k
              /\ Logs("eat") \/ Logs("hunt")
    /\ (lastOp' = "step" /\ agents[ev'.actor].kind # "grass" /\ ~Logs("eat") /\ ~Logs("hunt")) =>
          agents'[ev'.actor].energy < agents[ev'.actor].energy

-----------------------------------------------------------------------------
(* Properties of steps cut off by an exception *)

\* the agent whose step the step just taken cut off
FailedNow == probe'[1].agent

\* agent b was eaten in the step just taken, in the cell where a stands
EatenBy(a, b) ==
    /\ agents'[b] = [agents[b] EXCEPT !.pos = NoPos]
    /\ agents[b].pos = agents'[a].pos
    /\ \/ agents[a].kind = "herbivore" /\ agents[b].kind = "grass" /\ Logs("eat")
       \/ agents[a].kind = "predator" /\ agents[b].kind = "herbivore" /\ Logs("hunt")

FailureIsolated ==
    /\ lastOp' = "fail" =>
          /\ phase' = "run" /\ tick' = tick /\ snapshot' = snapshot
          /\ SeqToSet(pending') = SeqToSet(pending) \ {FailedNow}
          /\ Len(pending') = Len(pending) - 1
          /\ DOMAIN agents' = DOMAIN agents
          /\ \A b \in DOMAIN agents \ {FailedNow} :
                agents'[b] = agents[b] \/ EatenBy(FailedNow, b)
          /\ \A b \in DOMAIN agents \ {FailedNow} : stepped'[b] = stepped[b]
    /\ lastOp' = "end" =>
          \A a \in SeqToSet(snapshot') :
              /\ stepped'[a].steps + stepped'[a].skips = 1
              /\ stepped'[a].skips_on = 0

\* C36: a step of a herbivore or a predator that an exception cuts off
\* returns to the scheduler: the tick goes on with every other agent of the
\* work list still pending, no other agent is changed but one the step had
\* eaten before it was cut off, and when the tick ends every agent of the
\* work list has been stepped once, or passed over once because it had left
\* the grid.
C36_FailureIsolated == [][FailureIsolated]_vars

\* a first tick has ended in which a step was cut off while other agents
\* were pending, and each of them was stepped after it
C36_Witness ==
    /\ lastOp = "end" /\ tick = 1
    /\ Len(probe) = 1 /\ probe[1].tick = 0
    /\ probe[1].rest # <<>>
    /\ \A b \in SeqToSet(probe[1].rest) : stepped[b].steps = 1

-----------------------------------------------------------------------------
(* Properties of the offspring of one executed decision *)

\* the decision just executed ended in a reproduction
OffspringBorn == lastOp = "api_execute" /\ LogHas("reproduce")

Offspring == agents[ev.repro.offspring]

\* the parent does not move after reproduce(): it stands where it reproduced
ParentCell == agents[ev.repro.parent].pos

\* C37: the offspring of a reproduction is on the grid, in exactly one cell,
\* which is the parent's cell or one of the 8 cells around it on the torus,
\* where the parent's cell is the one it stood in when it reproduced; the
\* offspring is of the parent's kind and starts with hunger counter 0, sprint
\* cooldown 0 and breeding cooldown 0.
C37_OffspringNearParent ==
    OffspringBorn =>
        /\ ev.repro.parent = probe.agent
        /\ ev.repro.offspring = Len(probe.agents_before) + 1
        /\ Offspring.kind = agents[ev.repro.parent].kind
        /\ Offspring.pos # NoPos
        /\ TorusChebyshev(Offspring.pos, ParentCell) <= 1
        /\ \A c \in CellsOf(dim) :
              Occurrences(ev.repro.offspring, c) = IF c = Offspring.pos THEN 1 ELSE 0
        /\ Offspring.steps_without_food = 0
        /\ Offspring.sprint_cooldown = 0
        /\ Offspring.breeding_cooldown = 0

\* on the square torus a herbivore that sprinted, and so reproduced two
\* cells from where it started, has its offspring in a cell diagonal to its
\* own
C37_Witness ==
    /\ OffspringBorn
    /\ dim[2] > 1
    /\ Offspring.kind = "herbivore"
    /\ LogHas("sprint")
    /\ TorusChebyshev(probe.before.pos, ParentCell) = 2
    /\ WrapDist(Offspring.pos[1], ParentCell[1], dim[1]) = 1
    /\ WrapDist(Offspring.pos[2], ParentCell[2], dim[2]) = 1

-----------------------------------------------------------------------------
(* Properties of an executed flight *)

\* the world the decision was executed in
WorldBefore ==
    [dim |-> dim, cap |-> cap, agents |-> probe.agents_before, grid |-> probe.grid_before,
     ev |-> NoEvents]

\* herbivore 1 was told to flee and its scan detected a predator
FledFromPredator ==
    /\ Executed(1)
    /\ probe.decision.movement = "flee"
    /\ scan_for_predators(WorldBefore, 1, 3).detected

\* the score of a neighbour cell
FleeScore(cell) ==
    EvadeScore(WorldBefore, 1, scan_for_predators(WorldBefore, 1, 3).predator_cells, cell)

\* the immediate neighbour cells of the highest score
TopCells ==
    LET cells == SeqToSet(get_neighborhood(dim, probe.before.pos, FALSE, 1))
    IN  {c \in cells : \A c2 \in cells : FleeScore(c2) <= FleeScore(c)}

\* C39: a herbivore that executes flee with a predator detected moves to an
\* immediate neighbour cell whose score is the highest of all immediate
\* neighbour cells: to the best cell or to one that ties with it.
C39_FleesToTopScore == FledFromPredator => agents[1].pos \in TopCells

-----------------------------------------------------------------------------
(* Properties of two runs with one seed *)

\* C38: two runs started from the same configuration with the same seed are
\* in the same state after every step: the agents and the grid of the second
\* run are those of the first.
C38_SameSeedSameRun == InSync

-----------------------------------------------------------------------------
(* Properties of the grass of a constructed world *)

\* C40: from the construction of the world on, every cell holds at most one
\* grass unit.
C40_OneGrassPerCell ==
    lastOp # "init" => \A c \in CellsOf(dim) : Len(KindIn(World, c, "grass")) <= 1

====
